---- MODULE Spec2Model ----
(***************************************************************************)
(* Verification model of the ProD3 estimation service (ProD3-LF/estimators)*)
(*                                                                         *)
(* The library is a three stage pipeline.  Each part is modelled by its    *)
(* own group of variables and its own specification:                       *)
(*                                                                         *)
(*   SpecQ  the batched queue between producers and aggregator (fistq.c)   *)
(*   SpecP  the epoch hand-off between aggregator and reporter             *)
(*          (pd3_estimator.c, hashmap2.c)                                  *)
(*   SpecL  the loss estimator of one stream (lossdata.c, datatypes.c,     *)
(*          flowstate.c)                                                   *)
(*   SpecR  the reorder estimators of one stream (reorderdata.c)           *)
(*   SpecRW the same for the run across the wrap point, with a reporter    *)
(*          thread that keeps running                                      *)
(*   SpecQA the same queue fed through pd3_estimator_push_packet_info      *)
(*   SpecT  the reporter's trackers, the roll-up of streams into flows     *)
(*          and the report schedule (pd3_estimator.c, reportschedule.c)    *)
(*   SpecTC the report schedule of one stream under a moving clock         *)
(*   SpecFSeq, SpecFFlow  the pure functions of datatypes.c and            *)
(*          flowstate.c on drawn arguments                                 *)
(*   SpecD  the life cycle: pd3_estimator_init and pd3_estimator_destroy   *)
(*   SpecDF the shutdown of a library whose maps hold packets, with the    *)
(*          threads of SpecP and the reorder estimator of SpecR, under     *)
(*          fair scheduling                                                *)
(*   SpecH  the handles of the shared queue and the list of queues         *)
(*          (fistq.c, pd3_estimator.c)                                     *)
(*   SpecA  the aggregator loop and its deadline, under fair scheduling    *)
(*   SpecG  the seqnoRange objects, their lists and the free-lists         *)
(*   SpecU  the roll-up of the loss counters of stream units into a flow   *)
(*   SpecC  init and destroy called by several application threads         *)
(*                                                                         *)
(* A specification moves only the variables of its own groups; the other   *)
(* groups stay in their initial state.                                     *)
(***************************************************************************)
EXTENDS Integers, Naturals, Sequences, FiniteSets, TLC

(***************************************************************************)
(* Generic helpers                                                         *)
(***************************************************************************)
Range(s) == {s[i] : i \in DOMAIN s}

NoDup(s) == \A i, j \in DOMAIN s : i # j => s[i] # s[j]

RECURSIVE FilterSeq(_, _)
\* the subsequence of s whose elements are in the set S
FilterSeq(s, S) ==
    IF s = <<>> THEN <<>>
    ELSE IF Head(s) \in S THEN <<Head(s)>> \o FilterSeq(Tail(s), S)
                          ELSE FilterSeq(Tail(s), S)

(***************************************************************************)
(* State.  All variables are declared here, one group per part.            *)
(***************************************************************************)

\* ---- part Q: fistq (fistq.c, fistq.h) ------------------------------------
VARIABLES
    lq,          \* lq[h]: fh->lq of handle h, a queue_t [nodes, size]
    internal,    \* fq->internal, the shared queue_t [nodes, size]
    threshold,   \* threshold[h]: fh->threshold
    mutex,       \* owner of fq->mutex, or NoThread
    qpc,         \* qpc[t]: where thread t stands inside a fistq call
    qnode,       \* qnode[p]: the queue node allocated by fistq_enqueue_any
    cwait,       \* TRUE while the reader is blocked on fq->cond, unsignalled
    ctimed,      \* TRUE when the reader is inside fistq_timeddequeue_any
    ctimeout,    \* the local 'timeout' of fistq_timeddequeue_any
    nserial,     \* history: nserial[p] = number of pushes made on handle p
    flushed,     \* history: items that were moved into the shared queue
    popped       \* history: items returned by dequeue, in return order

qvars == <<lq, internal, threshold, mutex, qpc, qnode, cwait, ctimed,
           ctimeout, nserial, flushed, popped>>

\* ---- part P: epoch hand-off (pd3_estimator.c) ----------------------------
VARIABLES
    working_a,          \* aggregator's hashMapList [maps, count]
    working_sh,         \* the shared hand-off hashMapList
    working_r,          \* reporter's local hashMapList
    free_hashmaps_a,    \* free maps held by the aggregator
    free_hashmaps_sh,   \* free maps in the shared area
    free_hashmaps_r,    \* free maps held by the reporter
    shared_mutex,       \* owner of shared_mutex, or NoThread
    reporter_sleeping,  \* the flag of that name
    rwait,              \* TRUE while the reporter is blocked on shared_cond
    pd3_estimator_done, \* the shutdown flag
    periods_to_wait,    \* options->reporter_min_batches
    apc,                \* position of the aggregator thread
    rpc,                \* position of the reporter thread
    dpc,                \* position of the thread calling pd3_estimator_destroy
    nepoch,             \* history: number of epoch maps created so far
    processed           \* history: epochs processed by the reporter, in order

pvars == <<working_a, working_sh, working_r, free_hashmaps_a,
           free_hashmaps_sh, free_hashmaps_r, shared_mutex,
           reporter_sleeping, rwait, pd3_estimator_done, periods_to_wait,
           apc, rpc, dpc, nepoch, processed>>

\* ---- part L: loss estimator of one stream (lossdata.c) --------------------
VARIABLES
    l_W,        \* periods_to_wait of this run
    l_cur,      \* the stream's lossDataA in the aggregator's latest map
    l_pend,     \* the stream's lossDataA in the maps handed to the reporter,
                \* earliest first
    l_state,    \* the stream's lossState kept by the reporter
    l_unit,     \* the lossDataR produced for the map processed last
    l_chain,    \* the assembly chain (next_r) as the last lossdata_a2r left it
    l_acc,      \* the lossDataR of a tracker, accumulated over time
    l_hist,     \* history: the arrivals of every epoch, in arrival order
    l_done      \* history: number of epochs processed by the reporter

lvars ==
    <<l_W, l_cur, l_pend, l_state, l_unit, l_chain, l_acc, l_hist, l_done>>

\* ---- part R: reorder estimators of one stream (reorderdata.c) ------------
VARIABLES
    reorder_extent_enabled,   \* the flags set by reorderdata_init
    reorder_density_enabled,
    r_script,   \* "any": arrivals are free; else the run named by Script
    r_cur,      \* ranges of the stream's reorderDataA in the latest map
    r_pend,     \* the same for the maps handed to the reporter
    rstate,     \* the stream's reorderState kept by the reporter
    r_dr,       \* the reorderDataR being filled by reorderdata_a2r
    r_acc,      \* the reorderDataR of a tracker, accumulated over time
    r_pc,       \* position of the reporter inside reorderdata_a2r
    r_list,     \* ranges of the map in process not yet finished
    r_i,        \* the loop variable i of the loop the reporter is in
    r_hist,     \* history: all arrivals of the stream, in arrival order
    r_ndone,    \* history: arrivals held by the maps reorderdata_a2r finished
    r_seen,     \* history: numbers of the ranges reorderdata_a2r finished
    r_repeat,   \* history: the range in process holds only numbers of r_seen
    r_snap,     \* history: the extent bins when the range in process began
    r_boot      \* history: trips of the density loop, each for one arrival,
                \* that ended with the window initialised

rvars == <<reorder_extent_enabled, reorder_density_enabled, r_script, r_cur,
           r_pend, rstate, r_dr, r_acc, r_pc, r_list, r_i, r_hist, r_ndone,
           r_seen, r_repeat, r_snap, r_boot>>

\* ---- part T: the reporter's trackers and the report schedule -------------
VARIABLES
    schedule,   \* the repeating items made by set_schedule
    callbacks,  \* callbacks.cb: TRUE when the application registered one
    t_now,      \* the clock read by now()
    t_cur,      \* the aggregator's latest map: items, newest first
    t_pend,     \* the maps handed to the reporter, earliest first
    trackers,   \* trackers[i]: the item list of slot i, head first
    t_pc,       \* "idle", or "report" while the slots are visited
    t_slot,     \* the slot the reporter visits next
    t_run,      \* history: packets pushed and maps handed over so far
    t_arrived,  \* history: packets per stream of each map of t_pend, of t_cur
    t_since,    \* history: packets per stream a slot took in since it fired
    t_last      \* history: the latest firing of a slot and its callbacks

tvars == <<schedule, callbacks, t_now, t_cur, t_pend, trackers, t_pc, t_slot,
           t_run, t_arrived, t_since, t_last>>

\* ---- part F: the pure functions of datatypes.c and flowstate.c ------------
VARIABLES
    f_s,        \* the SEQNO arguments s and t of a call
    f_t,
    f_fs,       \* three flowState values, the operands of concatenations
    f_out       \* what the call made last returned

fvars == <<f_s, f_t, f_fs, f_out>>

\* ---- part D: the life cycle of the library (pd3_estimator.c) --------------
VARIABLES
    pd3_estimator_started,  \* the flag of that name
    init_mutex,             \* owner of init_mutex, or NoThread
    nitems,                 \* reportschedule.c: number of schedule slots
    d_items,                \* reportschedule.c: the array 'schedule'
    d_conf,                 \* the configuration init stores in statics
    d_ret,                  \* history: the latest call of init or destroy
    d_calls                 \* history: calls of init, sessions started

dvars == <<pd3_estimator_started, init_mutex, nitems, d_items, d_conf,
           d_ret, d_calls>>

\* ---- part H: the list of shared queues and the handles (fistq.c) ---------
VARIABLES
    fistq_list_head,  \* fistq_list_head.next: a queue of h_fq, or 0 for NULL
    h_fq,             \* h_fq[q]: the fistq_t number q, [state, ref_count]
    h_handle,         \* h_handle[h]: fh->fq of the open handle h, 0 if closed
    h_started,        \* the library is started
    h_inits           \* history: calls of pd3_estimator_init that started it

hvars == <<fistq_list_head, h_fq, h_handle, h_started, h_inits>>

\* ---- part A: the clock of the aggregator loop (pd3_estimator.c) ----------
VARIABLES
    a_now,        \* the clock read by clock_gettime, a struct timespec
    a_ref,        \* 'ref' of aggregator_thread: the deadline of the epoch
    a_interval,   \* aggregator_interval
    a_prev,       \* history: the deadline before the latest rotation
    a_rotated,    \* history: an epoch rotation has taken place
    a_slot,       \* the recycled hash map that is the working map
    a_pushed,     \* history: records flushed to the shared queue
    a_taken       \* history: records the aggregator has dequeued

avars == <<a_now, a_ref, a_interval, a_prev, a_rotated, a_slot, a_pushed,
           a_taken>>

\* ---- part G: the seqnoRange objects and the lists that hold them ---------
VARIABLES
    g_live,       \* the seqnoRange objects malloc has returned
    g_next,       \* the field 'next' of every seqnoRange (0 is NULL)
    g_maps,       \* the stream's item in every live epoch map, oldest first:
                  \* its loss and reorder lists and the area the map is in
    g_free,       \* free_lossranges_* and free_reorderranges_* of the areas
    g_rpc         \* the reporter's position in the recycling of a map

gvars == <<g_live, g_next, g_maps, g_free, g_rpc>>

\* ---- part U: the roll-up of stream units into one flow (lossdata.c) ------
VARIABLES
    u_accum,      \* the lossDataR of the flow item
    u_hist        \* history: the units rolled up so far, in order

uvars == <<u_accum, u_hist>>

\* ---- part C: overlapping calls of init and destroy (pd3_estimator.c) ----
VARIABLES
    c_pc,         \* c_pc[t]: where application thread t stands in its call
    c_ret,        \* history: c_ret[t], the latest return of thread t
    c_calls,      \* history: c_calls[t], the calls thread t has made
    c_live        \* TRUE while aggregator_tid and reporter_tid can be joined

cvars == <<c_pc, c_ret, c_calls, c_live>>

vars ==
    <<qvars, pvars, lvars, rvars, tvars, fvars, dvars, hvars,
      avars, gvars, uvars, cvars>>

\* what a specification of one part leaves alone
notQ ==
    <<pvars, lvars, rvars, tvars, fvars, dvars, hvars, avars,
      gvars,
      uvars,
      cvars>>
notP ==
    <<qvars, lvars, rvars, tvars, fvars, dvars, hvars, avars,
      gvars,
      uvars,
      cvars>>
notL ==
    <<qvars, pvars, rvars, tvars, fvars, dvars, hvars, avars,
      gvars,
      uvars,
      cvars>>
notR ==
    <<qvars, pvars, lvars, tvars, fvars, dvars, hvars, avars,
      gvars,
      uvars,
      cvars>>
notT ==
    <<qvars, pvars, lvars, rvars, fvars, dvars, hvars, avars,
      gvars,
      uvars,
      cvars>>
notF ==
    <<qvars, pvars, lvars, rvars, tvars, dvars, hvars, avars,
      gvars,
      uvars,
      cvars>>
notD ==
    <<qvars, lvars, rvars, tvars, fvars, hvars, avars,
      gvars,
      uvars,
      cvars>>
notPR ==
    <<qvars, lvars, tvars, fvars, dvars, hvars, avars,
      gvars,
      uvars,
      cvars>>
notA ==
    <<qvars, pvars, lvars, rvars, tvars, fvars, dvars, hvars, gvars,
      uvars,
      cvars>>
notG ==
    <<qvars, pvars, lvars, rvars, tvars, fvars, dvars, hvars, avars,
      uvars,
      cvars>>
notU ==
    <<qvars, pvars, lvars, rvars, tvars, fvars, dvars, hvars,
      avars, gvars,
      cvars>>
notC ==
    <<qvars, lvars, rvars, tvars, fvars, hvars,
      avars, gvars, uvars>>
notH ==
    <<qvars, pvars, lvars, rvars, tvars, fvars, dvars, avars,
      gvars,
      uvars,
      cvars>>

(***************************************************************************)
(*                                                                         *)
(*  PART Q  --  fistq: per-handle local queue + mutex protected queue      *)
(*                                                                         *)
(***************************************************************************)

\* ---- bounds of the queue model
MaxPush == 2               \* pushes per producer handle
MaxInfo == 5               \* packet infos pushed on the handle Busy

\* ---- program constants
DEFAULT_THRESHOLD == 5     \* fistq.h: flush local queue at this size

Producers == {"p1", "p2"}  \* writer threads, each with its own fistq_handle
Consumer  == "agg"         \* the single reader thread (aggregator)
Handles   == Producers \cup {Consumer}
NoThread  == "none"

FlushOptions == {"FISTQ_DEFAULT", "FISTQ_FLUSH", "FISTQ_NOFLUSH"}
Thresholds   == {2, DEFAULT_THRESHOLD}    \* values given to fistq_setThreshold
Tuned        == "p1"                      \* the handle the application tunes
Busy         == "p1"                      \* the handle with the most traffic

\* a queue_node_t carries the data pointer; the model names the data by the
\* pushing handle and the position of the push in that handle's call order
Item(h, k) == [src |-> h, ser |-> k]
Items      == {Item(h, k) : h \in Producers, k \in 1..MaxPush}

EmptyQueue == [nodes |-> <<>>, size |-> 0]

QInit ==
    /\ lq = [h \in Handles |-> EmptyQueue]
    /\ internal = EmptyQueue
    /\ threshold = [h \in Handles |-> DEFAULT_THRESHOLD]
    /\ mutex = NoThread
    /\ qpc = [t \in Handles |-> "idle"]
    /\ qnode = [p \in Producers |-> Item(p, 0)]
    /\ cwait = FALSE
    /\ ctimed = FALSE
    /\ ctimeout = FALSE
    /\ nserial = [p \in Producers |-> 0]
    /\ flushed = {}
    /\ popped = <<>>

\* ---- queue_t primitives ------------------------------------------------

\* tail->next = qn; tail = qn; size++
queue_append(q, qn) == [nodes |-> Append(q.nodes, qn), size |-> q.size + 1]

\* a splice that overwrites the head of the target list instead of linking
\* behind its tail
queue_splice_lost(to, from) ==
    [nodes |-> from.nodes, size |-> to.size + from.size]

\* to.tail->next = from.head.next; to.tail = from.tail; to.size += from.size
queue_splice(to, from) ==
    [nodes |-> to.nodes \o from.nodes, size |-> to.size + from.size]

\* qn = head.next; head.next = qn->next; size--
queue_pop(q) == [nodes |-> Tail(q.nodes), size |-> q.size - 1]

\* pthread_cond_signal(&fq->cond): a blocked reader becomes runnable
cond_signal == cwait' = FALSE

\* ---- writer side -------------------------------------------------------

\* fistq_setThreshold(fh, t)
fistq_setThreshold(p, t) ==
    /\ qpc[p] = "idle"
    /\ threshold[p] # t
    /\ threshold' = [threshold EXCEPT ![p] = t]
    /\ UNCHANGED <<lq, internal, mutex, qpc, qnode, cwait, ctimed, ctimeout,
                   nserial, flushed, popped,
                   notQ>>

\* an enqueue that treats FISTQ_NOFLUSH like FISTQ_DEFAULT
fistq_enqueue_any_default(p, op) ==
    /\ qpc[p] = "idle"
    /\ LET qn == Item(p, nserial[p] + 1) IN
       /\ nserial' = [nserial EXCEPT ![p] = @ + 1]
       /\ IF op = "FISTQ_FLUSH"
          THEN /\ qnode' = [qnode EXCEPT ![p] = qn]
               /\ qpc' = [qpc EXCEPT ![p] = "direct_lock"]
               /\ lq' = lq
          ELSE /\ lq' = [lq EXCEPT ![p] = queue_append(@, qn)]
               /\ qpc' = [qpc EXCEPT ![p] =
                            IF lq'[p].size >= threshold[p]
                            THEN "flush_lock" ELSE "idle"]
               /\ qnode' = qnode
    /\ UNCHANGED <<internal, threshold, mutex, cwait, ctimed, ctimeout,
                   flushed, popped,
                   notQ>>

\* fistq_enqueue_any(fh, data, type, op) up to the point where it needs the
\* mutex: FISTQ_FLUSH hands the node to fistq_direct, the other options
\* append to the local queue and call fistq_flush at the threshold
fistq_enqueue_any(p, op) ==
    /\ qpc[p] = "idle"
    /\ LET qn == Item(p, nserial[p] + 1) IN
       /\ nserial' = [nserial EXCEPT ![p] = @ + 1]
       /\ IF op = "FISTQ_FLUSH"
          THEN /\ qnode' = [qnode EXCEPT ![p] = qn]
               /\ qpc' = [qpc EXCEPT ![p] = "direct_lock"]
               /\ lq' = lq
          ELSE /\ lq' = [lq EXCEPT ![p] = queue_append(@, qn)]
               /\ qpc' = [qpc EXCEPT ![p] =
                            IF op # "FISTQ_NOFLUSH"
                               /\ lq'[p].size >= threshold[p]
                            THEN "flush_lock" ELSE "idle"]
               /\ qnode' = qnode
    /\ UNCHANGED <<internal, threshold, mutex, cwait, ctimed, ctimeout,
                   flushed, popped,
                   notQ>>

\* a writer thread of the queue model calls fistq_enqueue_any
writer_enqueue(p, op) ==
    /\ nserial[p] < MaxPush
    /\ fistq_enqueue_any(p, op)

\* pd3_estimator_push_packet_info(handle, pinfo): the copy of pinfo is
\* enqueued on handle->handle with FISTQ_NOFLUSH
pd3_estimator_push_packet_info(p) ==
    /\ nserial[p] < (IF p = Busy THEN MaxInfo ELSE MaxPush)
    /\ fistq_enqueue_any(p, "FISTQ_NOFLUSH")

\* fistq_flush(fh) called by the application: returns -1 on an empty local
\* queue, otherwise goes for the mutex
fistq_flush_call(p) ==
    /\ qpc[p] = "idle"
    /\ lq[p].size # 0
    /\ qpc' = [qpc EXCEPT ![p] = "flush_lock"]
    /\ UNCHANGED <<lq, internal, threshold, mutex, qnode, cwait, ctimed,
                   ctimeout, nserial, flushed, popped,
                   notQ>>

\* pd3_estimator_flush(handle): fistq_flush(handle->handle)
pd3_estimator_flush(p) == fistq_flush_call(p)

\* pthread_mutex_lock(&fh->fq->mutex) in fistq_flush
fistq_flush_lock(p) ==
    /\ qpc[p] = "flush_lock"
    /\ mutex = NoThread
    /\ mutex' = p
    /\ qpc' = [qpc EXCEPT ![p] = "flush_cs"]
    /\ UNCHANGED <<lq, internal, threshold, qnode, cwait, ctimed, ctimeout,
                   nserial, flushed, popped,
                   notQ>>

\* the critical section of fistq_flush: splice the local list onto the
\* shared tail, reset the local queue, signal, unlock
fistq_flush(p) ==
    /\ qpc[p] = "flush_cs"
    /\ mutex = p
    /\ internal' = queue_splice(internal, lq[p])
    /\ lq' = [lq EXCEPT ![p] = EmptyQueue]
    /\ flushed' = flushed \cup Range(lq[p].nodes)
    /\ cond_signal
    /\ mutex' = NoThread
    /\ qpc' = [qpc EXCEPT ![p] = "idle"]
    /\ UNCHANGED <<threshold, qnode, ctimed, ctimeout, nserial, popped,
                   notQ>>

\* pthread_mutex_lock(&fh->fq->mutex) in fistq_direct
fistq_direct_lock(p) ==
    /\ qpc[p] = "direct_lock"
    /\ mutex = NoThread
    /\ mutex' = p
    /\ qpc' = [qpc EXCEPT ![p] = "direct_cs"]
    /\ UNCHANGED <<lq, internal, threshold, qnode, cwait, ctimed, ctimeout,
                   nserial, flushed, popped,
                   notQ>>

\* the critical section of fistq_direct: the one node goes straight to the
\* shared tail, the local queue is not touched
fistq_direct(p) ==
    /\ qpc[p] = "direct_cs"
    /\ mutex = p
    /\ internal' = queue_append(internal, qnode[p])
    /\ flushed' = flushed \cup {qnode[p]}
    /\ cond_signal
    /\ mutex' = NoThread
    /\ qpc' = [qpc EXCEPT ![p] = "idle"]
    /\ UNCHANGED <<lq, threshold, qnode, ctimed, ctimeout, nserial, popped,
                   notQ>>

\* ---- reader side -------------------------------------------------------

\* entry of fistq_dequeue_any (timed = FALSE) or fistq_timeddequeue_any
\* (timed = TRUE): with a non-empty local queue the head is returned without
\* the mutex, otherwise the reader goes for the mutex
fistq_dequeue_call(timed) ==
    /\ qpc[Consumer] = "idle"
    /\ ctimed' = timed
    /\ ctimeout' = FALSE
    /\ qpc' = [qpc EXCEPT ![Consumer] =
                 IF lq[Consumer].size = 0 THEN "deq_lock" ELSE "deq_pop"]
    /\ UNCHANGED <<lq, internal, threshold, mutex, qnode, cwait, nserial,
                   flushed, popped,
                   notQ>>

\* pthread_mutex_lock, first time or when coming back from the wait
fistq_dequeue_lock ==
    /\ qpc[Consumer] \in {"deq_lock", "deq_relock", "deq_relock_to"}
    /\ mutex = NoThread
    /\ mutex' = Consumer
    /\ qpc' = [qpc EXCEPT ![Consumer] =
                 IF @ = "deq_relock_to" THEN "deq_move" ELSE "deq_check"]
    /\ UNCHANGED <<lq, internal, threshold, qnode, cwait, ctimed, ctimeout,
                   nserial, flushed, popped,
                   notQ>>

\* while (fh->fq->internal.size == 0) pthread_cond_[timed]wait(...):
\* the wait releases the mutex and blocks
fistq_dequeue_check ==
    /\ qpc[Consumer] = "deq_check"
    /\ mutex = Consumer
    /\ IF internal.size = 0
       THEN /\ mutex' = NoThread
            /\ cwait' = TRUE
            /\ qpc' = [qpc EXCEPT ![Consumer] = "deq_wait"]
       ELSE /\ qpc' = [qpc EXCEPT ![Consumer] = "deq_move"]
            /\ UNCHANGED <<mutex, cwait>>
    /\ UNCHANGED <<lq, internal, threshold, qnode, ctimed, ctimeout, nserial,
                   flushed, popped,
                   notQ>>

\* the wait returns 0: after a signal, or spuriously as POSIX allows
fistq_dequeue_wake ==
    /\ qpc[Consumer] = "deq_wait"
    /\ cwait' = FALSE
    /\ qpc' = [qpc EXCEPT ![Consumer] = "deq_relock"]
    /\ UNCHANGED <<lq, internal, threshold, mutex, qnode, ctimed, ctimeout,
                   nserial, flushed, popped,
                   notQ>>

\* pthread_cond_timedwait returns ETIMEDOUT: break out of the loop
fistq_dequeue_timedout ==
    /\ qpc[Consumer] = "deq_wait"
    /\ ctimed
    /\ cwait' = FALSE
    /\ qpc' = [qpc EXCEPT ![Consumer] = "deq_relock_to"]
    /\ UNCHANGED <<lq, internal, threshold, mutex, qnode, ctimed, ctimeout,
                   nserial, flushed, popped,
                   notQ>>

\* after the loop, still under the mutex: either note the timeout or move
\* the whole shared list to the local queue; then unlock
fistq_dequeue_move ==
    /\ qpc[Consumer] = "deq_move"
    /\ mutex = Consumer
    /\ IF internal.size = 0
       THEN /\ ctimeout' = TRUE
            /\ qpc' = [qpc EXCEPT ![Consumer] = "idle"]  \* returns TIMEOUT
            /\ UNCHANGED <<lq, internal>>
       ELSE /\ ctimeout' = FALSE
            /\ lq' = [lq EXCEPT ![Consumer] = queue_splice(@, internal)]
            /\ internal' = EmptyQueue
            /\ qpc' = [qpc EXCEPT ![Consumer] = "deq_pop"]
    /\ mutex' = NoThread
    /\ UNCHANGED <<threshold, qnode, cwait, ctimed, nserial, flushed,
                   notQ>>
    /\ popped' = popped

\* remove the head node of the local queue and return its data
fistq_dequeue_pop ==
    /\ qpc[Consumer] = "deq_pop"
    /\ popped' = Append(popped, Head(lq[Consumer].nodes))
    /\ lq' = [lq EXCEPT ![Consumer] = queue_pop(@)]
    /\ qpc' = [qpc EXCEPT ![Consumer] = "idle"]
    /\ UNCHANGED <<internal, threshold, mutex, qnode, cwait, ctimed,
                   ctimeout, nserial, flushed,
                   notQ>>

QNext ==
    \/ \E t \in Thresholds : fistq_setThreshold(Tuned, t)
    \/ \E p \in Producers, op \in FlushOptions : writer_enqueue(p, op)
    \/ \E p \in Producers : fistq_flush_call(p)
    \/ \E p \in Producers : fistq_flush_lock(p)
    \/ \E p \in Producers : fistq_flush(p)
    \/ \E p \in Producers : fistq_direct_lock(p)
    \/ \E p \in Producers : fistq_direct(p)
    \/ \E timed \in BOOLEAN : fistq_dequeue_call(timed)
    \/ fistq_dequeue_lock
    \/ fistq_dequeue_check
    \/ fistq_dequeue_wake
    \/ fistq_dequeue_timedout
    \/ fistq_dequeue_move
    \/ fistq_dequeue_pop

\* the queue as the library uses it: the application's threads push packet
\* infos and flush, the aggregator reads with fistq_timeddequeue_any
QANext ==
    \/ \E p \in Producers : pd3_estimator_push_packet_info(p)
    \/ \E p \in Producers : pd3_estimator_flush(p)
    \/ \E p \in Producers : fistq_flush_lock(p)
    \/ \E p \in Producers : fistq_flush(p)
    \/ fistq_dequeue_call(TRUE)
    \/ fistq_dequeue_lock
    \/ fistq_dequeue_check
    \/ fistq_dequeue_wake
    \/ fistq_dequeue_timedout
    \/ fistq_dequeue_move
    \/ fistq_dequeue_pop

(***************************************************************************)
(* Properties of the queue                                                 *)
(***************************************************************************)
ItemsOf(p) == {it \in Items : it.src = p}

\* C1: for every handle, the reader dequeues that handle's items in the
\* order in which they were pushed on it (push order = serial order),
\* whatever mix of FISTQ_DEFAULT, FISTQ_FLUSH, FISTQ_NOFLUSH and fistq_flush
\* the handle used.
C1_FifoPerHandle ==
    \A p \in Producers :
        LET mine == FilterSeq(popped, ItemsOf(p)) IN
        \A i, j \in DOMAIN mine : i < j => mine[i].ser < mine[j].ser

\* C2: every item that was flushed into the shared queue is, at every
\* moment, in exactly one place: the shared list, the reader's local list,
\* or the list of items already returned; nothing else is ever returned.
C2_FlushedExactlyOnce ==
    LET all == internal.nodes \o lq[Consumer].nodes \o popped IN
    /\ NoDup(all)
    /\ Range(all) = flushed

\* both producers' items were returned while a further flush sits in the
\* shared queue behind the reader's bulk move
C2_Witness ==
    /\ \E i, j \in DOMAIN popped :
          popped[i].src = "p1" /\ popped[j].src = "p2"
    /\ internal.size > 0
    /\ lq[Consumer].size > 0

\* the items of handle p that the reader can get at: those in the shared
\* queue, in the reader's local queue, or already returned
Available(p) ==
    {it \in Range(internal.nodes) \cup Range(lq[Consumer].nodes)
            \cup Range(popped) : it.src = p}

\* C12: pd3_estimator_push_packet_info only appends to the local queue of
\* the calling handle: the step leaves the shared queue and the mutex alone
\* and does not go on to the mutex, however many items the handle holds;
\* items of a handle become available to the reader only in the critical
\* section of a flush on that handle, which moves the whole local queue.
C12_PushIsLocal ==
    /\ [][\A p \in Producers :
            nserial'[p] # nserial[p] =>
                /\ lq'[p] = queue_append(lq[p], Item(p, nserial'[p]))
                /\ internal' = internal
                /\ mutex' = mutex
                /\ qpc'[p] = "idle"
                /\ Available(p)' = Available(p)
         ]_vars
    /\ [][\A p \in Producers :
            Available(p)' # Available(p) =>
                /\ qpc[p] = "flush_cs"
                /\ mutex = p
                /\ Available(p)' = Available(p) \cup Range(lq[p].nodes)
                /\ lq'[p] = EmptyQueue
         ]_vars

\* a handle holds DEFAULT_THRESHOLD pushed items in its local queue, none
\* of them available, while the other handle's flushed items are read
C12_Witness ==
    /\ lq["p1"].size = DEFAULT_THRESHOLD
    /\ qpc["p1"] = "idle"
    /\ Available("p1") = {}
    /\ Available("p2") # {}
    /\ popped # <<>>


(***************************************************************************)
(*                                                                         *)
(*  PART P  --  epoch maps handed from the aggregator to the reporter      *)
(*                                                                         *)
(***************************************************************************)

\* ---- bounds of the hand-off model
MaxEpochs == 4             \* epoch maps the aggregator creates
MaxW      == 2             \* largest reporter_min_batches tried
MaxPkt    == 1             \* packets the aggregator files into one map

\* a hashMap of the model: the epoch it was created for and the number of
\* packets filed into it
HashMap(e, n) == [epoch |-> e, npkt |-> n]

EmptyList == [maps |-> <<>>, count |-> 0]

\* pop_earliest(hml): unlink the earliest map, count--
pop_earliest(hml) == [maps |-> Tail(hml.maps), count |-> hml.count - 1]

\* push_latest(hml, hm): link behind the latest map, count++
push_latest(hml, hm) == [maps |-> Append(hml.maps, hm), count |-> hml.count + 1]

\* moveone_hashmap(to, from): the earliest map of 'from' becomes the latest
\* of 'to'; nothing happens when 'from' is empty.  The pair <<to, from>>.
moveone_hashmap(to, from) ==
    IF from.count = 0 THEN <<to, from>>
    ELSE <<push_latest(to, Head(from.maps)), pop_earliest(from)>>

\* a bulk move that links the moved maps in front of the maps already there
moveall_hashmap_front(to, from) ==
    IF from.count = 0 THEN <<to, from>>
    ELSE <<[maps |-> from.maps \o to.maps, count |-> to.count + from.count],
           EmptyList>>

\* moveall_hashmap(to, from): all maps of 'from' are linked, in their order,
\* behind the latest map of 'to'
moveall_hashmap(to, from) ==
    IF from.count = 0 THEN <<to, from>>
    ELSE <<[maps |-> to.maps \o from.maps, count |-> to.count + from.count],
           EmptyList>>

\* add_hashmap(hml, freelist): take a map from the free list (or malloc one),
\* clear it, make it the latest of hml.  The pair <<hml, freelist>>.
add_hashmap(hml, freelist, e) ==
    <<push_latest(hml, HashMap(e, 0)),
      IF freelist.count = 0 THEN freelist ELSE pop_earliest(freelist)>>

\* pending_hashmaps(): maps waiting in the shared area
pending_hashmaps == working_sh.count

PInitWith(w) ==
    /\ working_a = EmptyList
    /\ working_sh = EmptyList
    /\ working_r = EmptyList
    /\ free_hashmaps_a = EmptyList
    /\ free_hashmaps_sh = EmptyList
    /\ free_hashmaps_r = EmptyList
    /\ shared_mutex = NoThread
    /\ reporter_sleeping = 0
    /\ rwait = FALSE
    /\ pd3_estimator_done = 0
    /\ periods_to_wait = w
    /\ apc = "start"
    /\ rpc = "top"
    /\ dpc = "idle"
    /\ nepoch = 0
    /\ processed = <<>>

\* the state when pd3_estimator_init returns, for each reporter_min_batches
PInit == \E w \in 0..MaxW : PInitWith(w)
PIdle == PInitWith(1)

\* the null dereference of reporter_null_deref ends the process and with it
\* every thread
Alive == rpc # "crashed"

\* ---- aggregator thread -------------------------------------------------

\* aggregator_thread, before its loop: add_hashmap(&working_a, NULL)
aggregator_start ==
    /\ Alive
    /\ apc = "start"
    /\ nepoch' = nepoch + 1
    /\ working_a' = add_hashmap(working_a, EmptyList, nepoch + 1)[1]
    /\ apc' = "loop"
    /\ UNCHANGED <<working_sh, working_r, free_hashmaps_a, free_hashmaps_sh,
                   free_hashmaps_r, shared_mutex, reporter_sleeping, rwait,
                   pd3_estimator_done, periods_to_wait, rpc, dpc, processed,
                   notP>>

\* while (!pd3_estimator_done) ... : the loop ends when the flag is seen
aggregator_exit ==
    /\ Alive
    /\ apc = "loop"
    /\ pd3_estimator_done = 1
    /\ apc' = "exited"
    /\ UNCHANGED <<working_a, working_sh, working_r, free_hashmaps_a,
                   free_hashmaps_sh, free_hashmaps_r, shared_mutex,
                   reporter_sleeping, rwait, pd3_estimator_done,
                   periods_to_wait, rpc, dpc, nepoch, processed, notP>>

\* one loop iteration that dequeued a packet: handle_packet_arrival files it
\* into the latest map of working_a
handle_packet_arrival ==
    /\ Alive
    /\ apc = "loop"
    /\ pd3_estimator_done = 0
    /\ LET n  == working_a.count
           hm == working_a.maps[n] IN
       /\ hm.npkt < MaxPkt
       /\ working_a' = [working_a EXCEPT
                          !.maps[n] = HashMap(hm.epoch, hm.npkt + 1)]
    /\ UNCHANGED <<working_sh, working_r, free_hashmaps_a, free_hashmaps_sh,
                   free_hashmaps_r, shared_mutex, reporter_sleeping, rwait,
                   pd3_estimator_done, periods_to_wait, apc, rpc, dpc,
                   nepoch, processed, notP>>

\* one loop iteration at the end of the aggregation interval (now > ref, or
\* the timed dequeue timed out): period_transition is entered
period_transition_call ==
    /\ Alive
    /\ apc = "loop"
    /\ pd3_estimator_done = 0
    /\ nepoch < MaxEpochs
    /\ apc' = "pt_lock"
    /\ UNCHANGED <<working_a, working_sh, working_r, free_hashmaps_a,
                   free_hashmaps_sh, free_hashmaps_r, shared_mutex,
                   reporter_sleeping, rwait, pd3_estimator_done,
                   periods_to_wait, rpc, dpc, nepoch, processed, notP>>

\* pthread_mutex_lock(&shared_mutex) in period_transition
period_transition_lock ==
    /\ Alive
    /\ apc = "pt_lock"
    /\ shared_mutex = NoThread
    /\ shared_mutex' = "agg"
    /\ apc' = "pt_cs"
    /\ UNCHANGED <<working_a, working_sh, working_r, free_hashmaps_a,
                   free_hashmaps_sh, free_hashmaps_r, reporter_sleeping,
                   rwait, pd3_estimator_done, periods_to_wait, rpc, dpc,
                   nepoch, processed, notP>>

\* the critical section of period_transition and what follows it:
\* data_exchange_aggregator_unsafe, the signal when the reporter sleeps,
\* the unlock
period_transition ==
    /\ Alive
    /\ apc = "pt_cs"
    /\ shared_mutex = "agg"
    /\ LET w == moveone_hashmap(working_sh, working_a)
           f == moveall_hashmap(free_hashmaps_a, free_hashmaps_sh) IN
       /\ working_sh' = w[1]
       /\ working_a' = w[2]
       /\ free_hashmaps_a' = f[1]
       /\ free_hashmaps_sh' = f[2]
    /\ rwait' = IF reporter_sleeping = 1 THEN FALSE ELSE rwait
    /\ shared_mutex' = NoThread
    /\ apc' = "pt_add"
    /\ UNCHANGED <<working_r, free_hashmaps_r, reporter_sleeping,
                   pd3_estimator_done, periods_to_wait, rpc, dpc, nepoch,
                   processed, notP>>

\* add_hashmap(&working_a, &free_hashmaps_a) at the end of period_transition
period_transition_add ==
    /\ Alive
    /\ apc = "pt_add"
    /\ nepoch' = nepoch + 1
    /\ LET a == add_hashmap(working_a, free_hashmaps_a, nepoch + 1) IN
       /\ working_a' = a[1]
       /\ free_hashmaps_a' = a[2]
    /\ apc' = "loop"
    /\ UNCHANGED <<working_sh, working_r, free_hashmaps_sh, free_hashmaps_r,
                   shared_mutex, reporter_sleeping, rwait, pd3_estimator_done,
                   periods_to_wait, rpc, dpc, processed, notP>>

\* ---- reporter thread ---------------------------------------------------

\* while (!pd3_estimator_done) at the top of reporter_thread
reporter_top ==
    /\ rpc = "top"
    /\ rpc' = IF pd3_estimator_done = 1 THEN "exited" ELSE "lock"
    /\ UNCHANGED <<working_a, working_sh, working_r, free_hashmaps_a,
                   free_hashmaps_sh, free_hashmaps_r, shared_mutex,
                   reporter_sleeping, rwait, pd3_estimator_done,
                   periods_to_wait, apc, dpc, nepoch, processed, notP>>

\* pthread_mutex_lock(&shared_mutex), first time or on return from the wait;
\* the first time it is followed by reporter_sleeping = 1
reporter_lock ==
    /\ rpc \in {"lock", "relock"}
    /\ shared_mutex = NoThread
    /\ shared_mutex' = "rep"
    /\ reporter_sleeping' = IF rpc = "lock" THEN 1 ELSE reporter_sleeping
    /\ rpc' = "wait_check"
    /\ UNCHANGED <<working_a, working_sh, working_r, free_hashmaps_a,
                   free_hashmaps_sh, free_hashmaps_r, rwait,
                   pd3_estimator_done, periods_to_wait, apc, dpc, nepoch,
                   processed, notP>>

\* a wait loop that is left without looking at pending_hashmaps()
reporter_wait_check_nowait ==
    /\ rpc = "wait_check"
    /\ shared_mutex = "rep"
    /\ rpc' = "awake"
    /\ UNCHANGED <<shared_mutex, rwait>>
    /\ UNCHANGED <<working_a, working_sh, working_r, free_hashmaps_a,
                   free_hashmaps_sh, free_hashmaps_r, reporter_sleeping,
                   pd3_estimator_done, periods_to_wait, apc, dpc, nepoch,
                   processed, notP>>

\* while (!pending_hashmaps() && !pd3_estimator_done) pthread_cond_wait(...)
reporter_wait_check ==
    /\ rpc = "wait_check"
    /\ shared_mutex = "rep"
    /\ IF pending_hashmaps = 0 /\ pd3_estimator_done = 0
       THEN /\ shared_mutex' = NoThread
            /\ rwait' = TRUE
            /\ rpc' = "waiting"
       ELSE /\ rpc' = "awake"
            /\ UNCHANGED <<shared_mutex, rwait>>
    /\ UNCHANGED <<working_a, working_sh, working_r, free_hashmaps_a,
                   free_hashmaps_sh, free_hashmaps_r, reporter_sleeping,
                   pd3_estimator_done, periods_to_wait, apc, dpc, nepoch,
                   processed, notP>>

\* pthread_cond_wait returns: after a signal, or spuriously as POSIX allows
reporter_wake ==
    /\ rpc = "waiting"
    /\ rwait' = FALSE
    /\ rpc' = "relock"
    /\ UNCHANGED <<working_a, working_sh, working_r, free_hashmaps_a,
                   free_hashmaps_sh, free_hashmaps_r, shared_mutex,
                   reporter_sleeping, pd3_estimator_done, periods_to_wait,
                   apc, dpc, nepoch, processed, notP>>

\* after the wait loop: reporter_sleeping = 0; on shutdown unlock and leave,
\* otherwise data_exchange_reporter_unsafe and unlock
data_exchange_reporter ==
    /\ rpc = "awake"
    /\ shared_mutex = "rep"
    /\ reporter_sleeping' = 0
    /\ shared_mutex' = NoThread
    /\ IF pd3_estimator_done = 1
       THEN /\ rpc' = "exited"
            /\ UNCHANGED <<working_r, working_sh, free_hashmaps_sh,
                           free_hashmaps_r>>
       ELSE LET w == moveall_hashmap(working_r, working_sh)
                f == moveall_hashmap(free_hashmaps_sh, free_hashmaps_r) IN
            /\ working_r' = w[1]
            /\ working_sh' = w[2]
            /\ free_hashmaps_sh' = f[1]
            /\ free_hashmaps_r' = f[2]
            /\ rpc' = "process"
    /\ UNCHANGED <<working_a, free_hashmaps_a, rwait, pd3_estimator_done,
                   periods_to_wait, apc, dpc, nepoch, processed, notP>>

\* a processing round that starts one map short of periods_to_wait
reporter_process_eager ==
    /\ rpc = "process"
    /\ working_r.count >= periods_to_wait - 1
    /\ working_r.count > 0
    /\ processed' = Append(processed, Head(working_r.maps).epoch)
    /\ LET m == moveone_hashmap(free_hashmaps_r, working_r) IN
       /\ free_hashmaps_r' = m[1]
       /\ working_r' = m[2]
    /\ UNCHANGED <<working_a, working_sh, free_hashmaps_a, free_hashmaps_sh,
                   shared_mutex, reporter_sleeping, rwait, pd3_estimator_done,
                   periods_to_wait, apc, rpc, dpc, nepoch, notP>>

\* one round of while (working_r.count >= periods_to_wait): the earliest map
\* is processed and recycled with moveone_hashmap(&free_hashmaps_r,
\* &working_r)
reporter_process ==
    /\ rpc = "process"
    /\ working_r.count >= periods_to_wait
    /\ working_r.count > 0
    /\ processed' = Append(processed, Head(working_r.maps).epoch)
    /\ LET m == moveone_hashmap(free_hashmaps_r, working_r) IN
       /\ free_hashmaps_r' = m[1]
       /\ working_r' = m[2]
    /\ UNCHANGED <<working_a, working_sh, free_hashmaps_a, free_hashmaps_sh,
                   shared_mutex, reporter_sleeping, rwait, pd3_estimator_done,
                   periods_to_wait, apc, rpc, dpc, nepoch, notP>>

\* the same loop with reporter_min_batches = 0 and no map left: the loop
\* condition holds and working_r.earliest, a null pointer, is dereferenced
reporter_null_deref ==
    /\ rpc = "process"
    /\ working_r.count >= periods_to_wait
    /\ working_r.count = 0
    /\ rpc' = "crashed"
    /\ UNCHANGED <<working_a, working_sh, working_r, free_hashmaps_a,
                   free_hashmaps_sh, free_hashmaps_r, shared_mutex,
                   reporter_sleeping, rwait, pd3_estimator_done,
                   periods_to_wait, apc, dpc, nepoch, processed, notP>>

\* the loop condition fails: back to the top of the thread's loop
reporter_process_done ==
    /\ rpc = "process"
    /\ working_r.count < periods_to_wait
    /\ rpc' = "top"
    /\ UNCHANGED <<working_a, working_sh, working_r, free_hashmaps_a,
                   free_hashmaps_sh, free_hashmaps_r, shared_mutex,
                   reporter_sleeping, rwait, pd3_estimator_done,
                   periods_to_wait, apc, dpc, nepoch, processed, notP>>

\* ---- pd3_estimator_destroy ---------------------------------------------

\* pd3_estimator_done = 1, written without holding shared_mutex
pd3_estimator_destroy ==
    /\ Alive
    /\ dpc = "idle"
    /\ pd3_estimator_done' = 1
    /\ dpc' = "join_agg"
    /\ UNCHANGED <<working_a, working_sh, working_r, free_hashmaps_a,
                   free_hashmaps_sh, free_hashmaps_r, shared_mutex,
                   reporter_sleeping, rwait, periods_to_wait, apc, rpc,
                   nepoch, processed, notP>>

\* pthread_join(aggregator_tid) returns, then pthread_mutex_lock
destroy_join_aggregator ==
    /\ Alive
    /\ dpc = "join_agg"
    /\ apc = "exited"
    /\ shared_mutex = NoThread
    /\ shared_mutex' = "destroy"
    /\ dpc' = "signal"
    /\ UNCHANGED <<working_a, working_sh, working_r, free_hashmaps_a,
                   free_hashmaps_sh, free_hashmaps_r, reporter_sleeping,
                   rwait, pd3_estimator_done, periods_to_wait, apc, rpc,
                   nepoch, processed, notP>>

\* pthread_cond_signal(&shared_cond); pthread_mutex_unlock(&shared_mutex)
destroy_signal ==
    /\ Alive
    /\ dpc = "signal"
    /\ shared_mutex = "destroy"
    /\ rwait' = FALSE
    /\ shared_mutex' = NoThread
    /\ dpc' = "join_rep"
    /\ UNCHANGED <<working_a, working_sh, working_r, free_hashmaps_a,
                   free_hashmaps_sh, free_hashmaps_r, reporter_sleeping,
                   pd3_estimator_done, periods_to_wait, apc, rpc, nepoch,
                   processed, notP>>

\* pthread_join(reporter_tid) returns
destroy_join_reporter ==
    /\ Alive
    /\ dpc = "join_rep"
    /\ rpc = "exited"
    /\ dpc' = "joined"
    /\ UNCHANGED <<working_a, working_sh, working_r, free_hashmaps_a,
                   free_hashmaps_sh, free_hashmaps_r, shared_mutex,
                   reporter_sleeping, rwait, pd3_estimator_done,
                   periods_to_wait, apc, rpc, nepoch, processed, notP>>

PNext ==
    \/ aggregator_start
    \/ aggregator_exit
    \/ handle_packet_arrival
    \/ period_transition_call
    \/ period_transition_lock
    \/ period_transition
    \/ period_transition_add
    \/ reporter_top
    \/ reporter_lock
    \/ reporter_wait_check
    \/ reporter_wake
    \/ data_exchange_reporter
    \/ reporter_process
    \/ reporter_null_deref
    \/ reporter_process_done
    \/ pd3_estimator_destroy
    \/ destroy_join_aggregator
    \/ destroy_signal
    \/ destroy_join_reporter

(***************************************************************************)
(* Properties of the hand-off                                              *)
(***************************************************************************)

\* C3: the reporter processes the epoch maps in exactly the order in which
\* the aggregator created them: the k-th map processed is the k-th map
\* created, so none is skipped, reordered or processed twice.
C3_EpochOrder ==
    \A k \in DOMAIN processed : processed[k] = k

\* with reporter_min_batches = 2 the reporter has processed a map and holds
\* the next one back while a third waits in the shared area
C3_Witness ==
    /\ periods_to_wait = 2
    /\ Len(processed) >= 1
    /\ working_r.count = 1
    /\ working_sh.count >= 1

\* C11: the reporter processes its earliest map only while working_r holds
\* at least periods_to_wait maps; at every processing step the
\* periods_to_wait - 1 epochs that follow the processed one are the next
\* maps of working_r, where lossdata_a2r looks for them.
C11_LookAhead ==
    [][processed' # processed =>
         /\ working_r.count >= periods_to_wait
         /\ \A k \in 1..(periods_to_wait - 1) :
               /\ k + 1 <= Len(working_r.maps)
               /\ working_r.maps[k + 1].epoch = Head(working_r.maps).epoch + k
      ]_vars

\* with reporter_min_batches = 2 two maps were processed, each with its
\* successor at hand, and the successor of the second is held back
C11_Witness ==
    /\ periods_to_wait = 2
    /\ Len(processed) = 2
    /\ rpc = "process"
    /\ working_r.count = 1
    /\ Head(working_r.maps).epoch = 3

\* the step of reporter_thread that leaves the wait loop, and the step that
\* drains the shared list with data_exchange_reporter_unsafe
LeavesWait == rpc = "wait_check" /\ rpc' = "awake"
Drains     == rpc = "awake" /\ rpc' = "process"

\* C33: the reporter stays blocked on the hand-off condition until the
\* shared list holds at least W = periods_to_wait epoch maps or shutdown is
\* requested: it never drains the shared list while fewer than W maps are
\* pending there.
C33_DrainsAtW ==
    [][/\ LeavesWait =>
            pending_hashmaps >= periods_to_wait \/ pd3_estimator_done = 1
       /\ Drains => pending_hashmaps >= periods_to_wait
      ]_vars

\* C33 as the code has it: the reporter stays blocked until the shared list
\* holds at least one map or shutdown is requested, and it never drains an
\* empty shared list; the maps wait in working_r, the reporter's own list,
\* until there are periods_to_wait of them, and a drain moves every pending
\* map there.
C33_DrainsAtOne ==
    [][/\ LeavesWait => pending_hashmaps >= 1 \/ pd3_estimator_done = 1
       /\ Drains =>
            /\ pending_hashmaps >= 1
            /\ working_sh'.count = 0
            /\ working_r'.count = working_r.count + pending_hashmaps
      ]_vars

\* with reporter_min_batches = 2 the reporter drained the shared list when
\* one map was pending, and holds that map without having processed any
C33_Witness ==
    /\ periods_to_wait = 2
    /\ rpc = "process"
    /\ working_r.count = 1
    /\ working_sh.count = 0
    /\ processed = <<>>

\* C39: for every value of reporter_min_batches that init accepts, 0
\* included, the reporter processes a map only when working_r, its own
\* list, is non-empty: it never reads the earliest map of an empty list.
C39_EarliestExists == rpc # "crashed"


(***************************************************************************)
(*                                                                         *)
(*  PART L  --  loss estimator: ranges, look-ahead, sweep, accumulation    *)
(*                                                                         *)
(***************************************************************************)

\* ---- bounds of the sequence-number models
SeqBits == 6               \* bits of SEQNO and of PACKETCOUNT (U)
MaxArr  == 4               \* arrivals of the stream in one run
MaxEp   == 3               \* epochs of one run

SEQ_MOD == 2 ^ SeqBits     \* 2^U
SEQ_MAX == SEQ_MOD - 1     \* (SEQNO)-1
SEQ_HALF == 2 ^ (SeqBits - 1)

\* unsigned arithmetic of width U
U(x) == (x + 4 * SEQ_MOD) % SEQ_MOD

\* conversion of an unsigned value of width U to the signed int of that width
ToInt(x) == IF x >= SEQ_HALF THEN x - SEQ_MOD ELSE x

\* #define WRAPAROUND (((SEQNO) 1) << (sizeof(SEQNO) * 4))
WRAPAROUND == 2 ^ (SeqBits \div 2)

min(x, y) == IF x <= y THEN x ELSE y
max(x, y) == IF x >= y THEN x ELSE y

\* values of reporter_min_batches: without and with look-ahead
Waits == {1, 2}

\* sequence numbers the stream may carry: around zero and around the wrap
SeqChoices == {0, 1, 2, SEQ_MAX - 1, SEQ_MAX}

\* ---- datatypes.c ---------------------------------------------------------

\* int seqcmp(SEQNO s, SEQNO t)
seqcmp(s, t) ==
    LET diff == U(t - s) IN
    IF diff > 0 /\ diff < SEQ_HALF THEN -1
    ELSE IF s = t THEN 0
    ELSE 1

\* SEQNO modular_distance(SEQNO s, SEQNO t)
modular_distance(s, t) ==
    IF t >= s THEN t - s ELSE U(t - s + SEQ_MAX)

\* ---- flowstate.c ---------------------------------------------------------

flowstate_delimit(fs) ==
    IF fs \in {"FS_NULL", "FS_D"} THEN "FS_D"
    ELSE IF fs \in {"FS_P", "FS_PD"} THEN "FS_PD"
    ELSE IF fs \in {"FS_DP", "FS_DPD"} THEN "FS_DPD"
    ELSE "FS_ERROR"

\* a packet after FS_PD that starts over in FS_P
flowstate_packet_restart(fs) ==
    IF fs \in {"FS_NULL", "FS_P", "FS_PD"} THEN "FS_P"
    ELSE IF fs \in {"FS_D", "FS_DP"} THEN "FS_DP"
    ELSE "FS_ERROR"

flowstate_packet(fs) ==
    IF fs \in {"FS_NULL", "FS_P"} THEN "FS_P"
    ELSE IF fs \in {"FS_D", "FS_DP"} THEN "FS_DP"
    ELSE "FS_ERROR"

\* a concatenation that applies the packet and the delimiter of FS_DP in
\* the opposite order
flowstate_concatenate_swapped(fs1, fs2) ==
    CASE fs2 = "FS_NULL" -> fs1
      [] fs2 = "FS_D"    -> flowstate_delimit(fs1)
      [] fs2 = "FS_P"    -> flowstate_packet(fs1)
      [] fs2 = "FS_DP"   -> flowstate_delimit(flowstate_packet(fs1))
      [] fs2 = "FS_PD"   -> flowstate_delimit(flowstate_packet(fs1))
      [] fs2 = "FS_DPD"  ->
             flowstate_delimit(flowstate_packet(flowstate_delimit(fs1)))
      [] OTHER           -> "FS_ERROR"

\* enum flowState flowstate_concatenate(enum flowState fs1, fs2)
flowstate_concatenate(fs1, fs2) ==
    CASE fs2 = "FS_NULL" -> fs1
      [] fs2 = "FS_D"    -> flowstate_delimit(fs1)
      [] fs2 = "FS_P"    -> flowstate_packet(fs1)
      [] fs2 = "FS_DP"   -> flowstate_packet(flowstate_delimit(fs1))
      [] fs2 = "FS_PD"   -> flowstate_delimit(flowstate_packet(fs1))
      [] fs2 = "FS_DPD"  ->
             flowstate_delimit(flowstate_packet(flowstate_delimit(fs1)))
      [] OTHER           -> "FS_ERROR"

flowstate_beginp(fs) == fs \in {"FS_P", "FS_PD"}
flowstate_error(fs)  == fs = "FS_ERROR"

\* ---- lossdata.c: the aggregator side -------------------------------------

\* a seqnoRange as the aggregator keeps it
Rng(lo, hi) == [low |-> lo, high |-> hi]

\* a lossDataA after memset: no range, FS_NULL
EmptyLDA == [ranges |-> <<>>, flowstate |-> "FS_NULL"]

\* an arrival that extends the head range across the wrap as well
lossdata_arrival_wrap(lda, seqno) ==
    [ranges |->
        IF lda.ranges # <<>> /\ Head(lda.ranges).high = U(seqno - 1)
        THEN <<Rng(Head(lda.ranges).low, seqno)>> \o Tail(lda.ranges)
        ELSE <<Rng(seqno, seqno)>> \o lda.ranges,
     flowstate |-> flowstate_packet(lda.flowstate)]

\* lossdata_arrival(lda, seqno, free_ranges): ranges.head is the range that
\* was touched last; it grows when seqno follows its high end and is not 0,
\* otherwise a new one-number range becomes the head
lossdata_arrival(lda, seqno) ==
    [ranges |->
        IF lda.ranges # <<>> /\ Head(lda.ranges).high = U(seqno - 1)
           /\ seqno # 0
        THEN <<Rng(Head(lda.ranges).low, seqno)>> \o Tail(lda.ranges)
        ELSE <<Rng(seqno, seqno)>> \o lda.ranges,
     flowstate |-> flowstate_packet(lda.flowstate)]


\* ---- lossdata.c: the reporter side ---------------------------------------

\* a lossDataR after memset
ZeroLDR == [flowstate |-> "FS_NULL", badflows |-> 0, received |-> 0,
            dropped |-> 0, consecutive_drops |-> 0, gap_total |-> 0,
            gap_count |-> 0, gap_min |-> 0, gap_max |-> 0]

\* a lossState after memset
ZeroLossState == [has_high_seqno |-> 0, high_seqno |-> 0,
                  has_last_range |-> 0, last_range |-> Rng(0, 0)]

\* a range as lossdata_a2r links it: wraparound and arrival_period are the
\* fields of that name; ep and ix say where the range lives (map number in
\* the reporter's list, position in that map's range list; 0 for the fake
\* range of the past, which is a local variable)
A2RRange(r, arr, e, i) ==
    [low |-> r.low, high |-> r.high, wraparound |-> 0,
     arrival_period |-> arr, ep |-> e, ix |-> i]

\* lossdata_a2r_begin: the ranges of the present map
lossdata_a2r_begin(lda) ==
    [i \in DOMAIN lda.ranges |-> A2RRange(lda.ranges[i], "ARR_PRESENT", 1, i)]

\* the ranges lossdata_a2r links for the sweep: the present ones, the fake
\* range of the past when the flow state begins with a packet and a high
\* sequence number is known, and those of the next periods_to_wait - 1 maps
RECURSIVE FutureRanges(_, _, _)
FutureRanges(pend, e, w) ==
    IF e > w \/ e > Len(pend) THEN <<>>
    ELSE [i \in DOMAIN pend[e].ranges |->
             A2RRange(pend[e].ranges[i], "ARR_FUTURE", e, i)]
         \o FutureRanges(pend, e + 1, w)

lossdata_a2r_add(lda, lstate, pend, w) ==
    lossdata_a2r_begin(lda)
    \o (IF flowstate_beginp(lda.flowstate) /\ lstate.has_high_seqno = 1
        THEN <<A2RRange(Rng(lstate.high_seqno, lstate.high_seqno),
                        "ARR_PAST", 0, 0)>>
        ELSE <<>>)
    \o FutureRanges(pend, 2, w)

\* static int rangecmp(const void *x, const void *y): the unsigned difference
\* of the low ends is returned as an int
rangecmp(rx, ry) ==
    IF rx.wraparound # ry.wraparound
    THEN ry.wraparound - rx.wraparound
    ELSE ToInt(U(rx.low - ry.low))

\* rangecmp orders the given ranges consistently: it is antisymmetric in
\* sign and transitive
rangecmp_consistent(array) ==
    /\ \A i, j \in DOMAIN array :
          (rangecmp(array[i], array[j]) < 0)
             <=> (rangecmp(array[j], array[i]) > 0)
    /\ \A i, j, k \in DOMAIN array :
          rangecmp(array[i], array[j]) <= 0
          /\ rangecmp(array[j], array[k]) <= 0
             => rangecmp(array[i], array[k]) <= 0

\* every arrangement of the elements at the given positions
RECURSIVE AllOrders(_, _)
AllOrders(array, idx) ==
    IF idx = {} THEN {<<>>}
    ELSE UNION {{<<array[i]>> \o rest : rest \in AllOrders(array, idx \ {i})}
                : i \in idx}

\* every arrangement in which no element is followed by one that rangecmp
\* puts before it
RECURSIVE Sorted(_, _)
Sorted(array, idx) ==
    IF idx = {} THEN {<<>>}
    ELSE UNION {{<<array[i]>> \o rest : rest \in Sorted(array, idx \ {i})}
                : i \in {m \in idx :
                          \A j \in idx : rangecmp(array[m], array[j]) <= 0}}

\* qsort(array, n, sizeof(struct seqnoRange *), rangecmp): the arrays it may
\* leave.  Equal elements come out in any order; with a comparison that is
\* not an ordering the result is some arrangement of the input.
qsort(array) ==
    IF rangecmp_consistent(array)
    THEN Sorted(array, DOMAIN array)
    ELSE AllOrders(array, DOMAIN array)

\* the wraparound detection of lossdata_a2r_compute: mark the ranges in
\* array order; at the first neighbour more than WRAPAROUND / 2 ahead sort
\* again and stop.  The set of arrays this may leave.
RECURSIVE detect_wraparound(_, _)
detect_wraparound(array, i) ==
    IF i > Len(array) THEN {array}
    ELSE LET marked == [array EXCEPT ![i].wraparound = 1] IN
         IF i < Len(array)
            /\ U(array[i + 1].low - array[i].high) > WRAPAROUND \div 2
         THEN qsort(marked)
         ELSE detect_wraparound(marked, i + 1)

\* begin: first array element after ARR_PAST, else the first element
a2r_begin_index(array) ==
    LET past == {i \in DOMAIN array : array[i].arrival_period = "ARR_PAST"}
    IN IF past = {} THEN 1
       ELSE (CHOOSE i \in past : \A j \in past : j <= i) + 1

\* end: final array element that is not ARR_FUTURE (0 when there is none)
a2r_end_index(array) ==
    LET now == {i \in DOMAIN array : array[i].arrival_period # "ARR_FUTURE"}
    IN IF now = {} THEN 0
       ELSE CHOOSE i \in now : \A j \in now : j <= i


\* one round of the tally loop of lossdata_a2r_compute, for array element r
\* with distances taken from 'base'.  c = [array, state, ldr].
a2r_tally(c, i, base) ==
    LET prev        == c.state.last_range
        r           == c.array[i]
        d_prev_high == modular_distance(base, prev.high)
        d_this_low  == modular_distance(base, r.low)
        d_this_high == modular_distance(base, r.high)
        overlap     == d_this_low <= d_prev_high
    IN
    IF overlap /\ d_this_high <= d_prev_high
    THEN c          \* subsumed by the previous range: skipped
    ELSE
    LET low1  == IF overlap THEN U(min(r.high, prev.high) + 1) ELSE r.low
        high1 == IF r.high < low1 THEN U(base - 1) ELSE r.high
        recd  == U(high1 - low1 + 1)
        distance == modular_distance(prev.high, low1)
        gap   == IF distance > 0 THEN distance - 1 ELSE 0
        l     == c.ldr
    IN
    [array |-> [c.array EXCEPT ![i].low = low1, ![i].high = high1],
     state |-> [c.state EXCEPT !.last_range = Rng(low1, high1)],
     ldr   |-> [l EXCEPT
        !.received = U(@ + recd),
        !.dropped = U(@ + gap),
        !.consecutive_drops = IF gap > 1 THEN U(@ + gap - 1) ELSE @,
        !.gap_min = IF gap > 0 /\ (l.gap_count = 0 \/ gap < @) THEN gap ELSE @,
        !.gap_max = IF gap > 0 /\ (l.gap_count = 0 \/ gap > @) THEN gap ELSE @,
        !.gap_total = IF gap > 0 THEN U(@ + gap) ELSE @,
        !.gap_count = IF gap > 0 THEN U(@ + 1) ELSE @]]

\* for (i = begin; i <= end; i++) ...
RECURSIVE a2r_sweep(_, _, _, _)
a2r_sweep(c, i, end, base) ==
    IF i > end THEN c
    ELSE a2r_sweep(a2r_tally(c, i, base), i + 1, end, base)

\* lossdata_a2r_compute on one sorted array: [ret, array, state, ldr,
\* present_high]
a2r_compute_sorted(array, state, ldr) ==
    LET begin == a2r_begin_index(array)
        end   == a2r_end_index(array)
    IN
    IF end = 0
    THEN [ret |-> 0, array |-> array, state |-> state, ldr |-> ldr,
          present_high |-> 0, cleanup |-> FALSE]
    ELSE
    LET st1 == IF state.has_last_range = 0
               THEN [state EXCEPT
                       !.last_range = Rng(U(array[begin].low - 1),
                                          U(array[begin].low - 1)),
                       !.has_last_range = 1]
               ELSE state
        c   == a2r_sweep([array |-> array, state |-> st1, ldr |-> ldr],
                         begin, end, st1.last_range.high)
    IN [ret |-> 1, array |-> c.array, state |-> c.state, ldr |-> c.ldr,
        present_high |-> c.array[end].high, cleanup |-> TRUE]

\* lossdata_a2r_compute: sort, detect wraparound, tally.  The set of
\* outcomes, one per array the two sorts may leave.
lossdata_a2r_compute(list, state, ldr) ==
    IF Len(list) = 0
    THEN {[ret |-> 0, array |-> list, state |-> state, ldr |-> ldr,
           present_high |-> 0, cleanup |-> FALSE]}
    ELSE {a2r_compute_sorted(a2, state, ldr) :
             a2 \in UNION {detect_wraparound(a1, 1) : a1 \in qsort(list)}}

\* ---- the assembly chain of lossdata_a2r (ldr.ranges, linked by next_r) ----

\* a range is named by the map and the position it lives at; no range
NoRange == <<>>
RangeId(r) == <<r.ep, r.ix>>

\* ldr.ranges and the ranges linked into it, head first
NoChain == [head |-> NoRange, tail |-> NoRange, ranges |-> <<>>]

RECURSIVE Reverse(_)
Reverse(ss) == IF ss = <<>> THEN <<>> ELSE Append(Reverse(Tail(ss)), Head(ss))

\* the order of the chain for the ranges given in the order they were
\* linked: lossdata_a2r_begin takes over the list of the present map, every
\* lossdata_a2r_add puts its range in front
a2r_chain(list) ==
    LET present == SelectSeq(list, LAMBDA r : r.arrival_period = "ARR_PRESENT")
        added   == SelectSeq(list, LAMBDA r : r.arrival_period # "ARR_PRESENT")
    IN Reverse(added) \o present

\* the chain when lossdata_a2r_compute returns.  array holds the ranges as
\* the sorts and the sweep left them.  The cleanup loop
\*   for (r = ldr->ranges.head; r; r = r->next_r) { ...; r->next_r = NULL; }
\* reads r->next_r after the body has cleared it, so it ends after the head
\* element; the early returns leave the chain as it is
a2r_cleanup(chain, array, cleanup) ==
    LET elem(k) ==
            LET a == array[CHOOSE j \in DOMAIN array :
                              RangeId(array[j]) = RangeId(chain[k])]
            IN [id |-> RangeId(a), wraparound |-> a.wraparound,
                arrival_period |-> a.arrival_period,
                next_r |-> IF k < Len(chain) THEN RangeId(chain[k + 1])
                           ELSE NoRange]
        linked == [k \in DOMAIN chain |-> elem(k)]
    IN
    IF chain = <<>> THEN NoChain
    ELSE IF ~cleanup
    THEN [head |-> RangeId(chain[1]), tail |-> RangeId(chain[Len(chain)]),
          ranges |-> linked]
    ELSE [head |-> NoRange, tail |-> NoRange,
          ranges |-> [linked EXCEPT ![1] =
                         [id |-> linked[1].id, wraparound |-> 0,
                          arrival_period |-> "ARR_PRESENT",
                          next_r |-> NoRange]]]

\* the ranges of map e after the sweep rewrote some of them in place
a2r_written_back(lda, e, array) ==
    [lda EXCEPT !.ranges =
        [i \in DOMAIN lda.ranges |->
            LET hit == {k \in DOMAIN array :
                          array[k].ep = e /\ array[k].ix = i}
            IN IF hit = {} THEN lda.ranges[i]
               ELSE LET k == CHOOSE k \in hit : TRUE
                    IN Rng(array[k].low, array[k].high)]]

\* lossdata_a2r(ldr, lda, lstate, future, key, periods_to_wait) on the
\* earliest map of pend: the set of outcomes [ldr, lstate, pend]
lossdata_a2r(pend, lstate, w) ==
    LET lda  == pend[1]
        ldr0 == [ZeroLDR EXCEPT !.flowstate = lda.flowstate]
        list == lossdata_a2r_add(lda, lstate, pend, w)
    IN {[ldr    |-> o.ldr,
         chain  |-> a2r_cleanup(a2r_chain(list), o.array, o.cleanup),
         lstate |-> [o.state EXCEPT
                       !.has_high_seqno = o.ret,
                       !.high_seqno = IF o.ret = 1 THEN o.present_high ELSE @],
         pend   |-> [e \in DOMAIN pend |->
                        a2r_written_back(pend[e], e, o.array)]]
        : o \in lossdata_a2r_compute(list, lstate, ldr0)}

\* static void lossdata_accumulate(accum, unit)
lossdata_accumulate(accum, unit) ==
    IF U(accum.received + accum.dropped) # 0
       /\ U(unit.received + unit.dropped) # 0
    THEN [accum EXCEPT
            !.received = U(@ + unit.received),
            !.dropped = U(@ + unit.dropped),
            !.consecutive_drops = U(@ + unit.consecutive_drops),
            !.gap_total = U(@ + unit.gap_total),
            !.gap_count = U(@ + unit.gap_count),
            !.gap_min = min(@, unit.gap_min),
            !.gap_max = max(@, unit.gap_max)]
    ELSE IF U(unit.received + unit.dropped) # 0 THEN unit
    ELSE accum

\* void lossdata_accumulate_time(accum, unit)
lossdata_accumulate_time(accum, unit) ==
    LET a == lossdata_accumulate(accum, unit) IN
    [a EXCEPT !.flowstate = flowstate_concatenate(a.flowstate, unit.flowstate)]

\* void lossdata_accumulate_flows(accum, unit)
lossdata_accumulate_flows(accum, unit) ==
    IF flowstate_error(unit.flowstate)
    THEN [accum EXCEPT !.badflows = @ + 1]
    ELSE lossdata_accumulate(accum, unit)


\* ---- the life of one stream ----------------------------------------------

LInitWith(w) ==
    /\ l_W = w
    /\ l_cur = EmptyLDA
    /\ l_pend = <<>>
    /\ l_state = ZeroLossState
    /\ l_unit = ZeroLDR
    /\ l_chain = NoChain
    /\ l_acc = ZeroLDR
    /\ l_hist = <<<<>>>>
    /\ l_done = 0

LInit == \E w \in Waits : LInitWith(w)
LIdle == LInitWith(1)

RECURSIVE Flatten(_)
Flatten(ss) == IF ss = <<>> THEN <<>> ELSE Head(ss) \o Flatten(Tail(ss))

\* handle_packet_arrival for a packet of the stream: lossdata_arrival on the
\* stream's item of the latest map
l_arrival(seqno) ==
    /\ Len(Flatten(l_hist)) < MaxArr
    /\ l_cur' = lossdata_arrival(l_cur, seqno)
    /\ l_hist' = [l_hist EXCEPT ![Len(l_hist)] = Append(@, seqno)]
    /\ UNCHANGED <<l_W, l_pend, l_state, l_unit, l_chain, l_acc, l_done,
                   notL>>

\* period_transition followed by the reporter's data exchange: the latest
\* map goes to the reporter, a cleared map takes its place
l_period_transition ==
    /\ Len(l_hist) < MaxEp
    /\ l_pend' = Append(l_pend, l_cur)
    /\ l_cur' = EmptyLDA
    /\ l_hist' = Append(l_hist, <<>>)
    /\ UNCHANGED <<l_W, l_state, l_unit, l_chain, l_acc, l_done, notL>>

\* one round of the reporter's processing loop for a map that holds an item
\* of the stream: lossdata_a2r, accumulate_time into the tracker, recycling
l_process ==
    /\ Len(l_pend) >= l_W
    /\ l_pend[1].ranges # <<>>
    /\ \E o \in lossdata_a2r(l_pend, l_state, l_W) :
          /\ l_unit' = o.ldr
          /\ l_chain' = o.chain
          /\ l_state' = o.lstate
          /\ l_acc' = lossdata_accumulate_time(l_acc, o.ldr)
          /\ l_pend' = Tail(o.pend)
    /\ l_done' = l_done + 1
    /\ UNCHANGED <<l_W, l_cur, l_hist, notL>>

\* the same round for a map without an item of the stream: nothing is
\* computed for the stream
l_process_absent ==
    /\ Len(l_pend) >= l_W
    /\ l_pend[1].ranges = <<>>
    /\ l_pend' = Tail(l_pend)
    /\ l_done' = l_done + 1
    /\ UNCHANGED <<l_W, l_cur, l_state, l_unit, l_chain, l_acc, l_hist,
                   notL>>

LNext ==
    \/ \E seqno \in SeqChoices : l_arrival(seqno)
    \/ l_period_transition
    \/ l_process
    \/ l_process_absent


(***************************************************************************)
(* Properties of the loss estimator                                        *)
(***************************************************************************)

\* the arrivals of the epochs the reporter has processed, and of the first
\* of them that holds any
DoneEpochs   == SubSeq(l_hist, 1, l_done)
DoneArrivals == Flatten(DoneEpochs)
FirstEpoch   ==
    DoneEpochs[CHOOSE e \in DOMAIN DoneEpochs :
                  /\ DoneEpochs[e] # <<>>
                  /\ \A d \in 1..(e - 1) : DoneEpochs[d] = <<>>]

SetMin(S) == CHOOSE x \in S : \A y \in S : x <= y
SetMax(S) == CHOOSE x \in S : \A y \in S : x >= y

\* the stream stays below the wrap point and its first epoch does not hold
\* sequence number 0 (the first range of a stream is tallied against a
\* pretended predecessor low - 1, which for 0 lies across the wrap)
AwayFromWrap ==
    /\ \A e \in DOMAIN l_hist : Range(l_hist[e]) \subseteq 0..2
    /\ DoneArrivals # <<>> => 0 \notin Range(FirstEpoch)

\* C4: every sequence number from the lowest one of the stream's first
\* processed epoch to the highest one processed so far is counted exactly
\* once, as received or as dropped: received + dropped of the accumulated
\* reports equals the size of that span, whatever duplicates or late
\* arrivals the epochs held.  Stated without look-ahead (periods_to_wait
\* = 1), so that no arrival is counted ahead of its epoch.
C4_CountedOnce ==
    (l_W = 1 /\ AwayFromWrap /\ DoneArrivals # <<>>) =>
        l_acc.received + l_acc.dropped
            = SetMax(Range(DoneArrivals)) - SetMin(Range(FirstEpoch)) + 1

StrictlyIncreasing(ss) == \A i, j \in DOMAIN ss : i < j => ss[i] < ss[j]

\* the gaps of a strictly increasing run: the lengths of the holes between
\* neighbours
GapsOf(ss) == [i \in 1..(Len(ss) - 1) |-> ss[i + 1] - ss[i] - 1]

RECURSIVE SeqSum(_)
SeqSum(ss) == IF ss = <<>> THEN 0 ELSE Head(ss) + SeqSum(Tail(ss))

\* C5: for a stream whose arrivals are strictly increasing numbers below the
\* wrap, spread over any number of epochs, the totals over the processed
\* epochs are received = number of arrivals, dropped = (highest - lowest + 1)
\* - number of arrivals, consecutive_drops = sum over the gaps of (length
\* - 1), gap_count = number of gaps.
C5_IncreasingTotals ==
    LET all  == Flatten(l_hist)
        seen == DoneArrivals
        gaps == FilterSeq(GapsOf(seen), 1..SEQ_MOD)
    IN
    (StrictlyIncreasing(all) /\ Range(all) \subseteq 0..(SEQ_HALF - 1)
     /\ seen # <<>>) =>
        /\ l_acc.received = Len(seen)
        /\ l_acc.dropped = (seen[Len(seen)] - seen[1] + 1) - Len(seen)
        /\ l_acc.consecutive_drops = SeqSum(gaps) - Len(gaps)
        /\ l_acc.gap_count = Len(gaps)

\* the arrivals of the epoch the aggregator is filling
CurArrivals == l_hist[Len(l_hist)]
WrapRun     == <<SEQ_MAX - 1, SEQ_MAX, 0, 1>>

\* C6 as stated: after the arrivals 2^U-2, 2^U-1, 0, 1 in one epoch the loss
\* view of that epoch holds a single range covering all four numbers.
C6_SingleRange ==
    CurArrivals = WrapRun =>
        l_cur.ranges = <<Rng(SEQ_MAX - 1, 1)>>

\* C6: after the arrivals 2^U-2, 2^U-1, 0, 1 in one epoch the loss view of
\* that epoch holds two ranges, [0, 1] at the head and [2^U-2, 2^U-1] behind
\* it, which together cover exactly the four numbers: a range is never
\* extended across the wrap point.
C6_TwoRanges ==
    CurArrivals = WrapRun =>
        l_cur.ranges = <<Rng(0, 1), Rng(SEQ_MAX - 1, SEQ_MAX)>>

\* the four arrivals across the wrap have been filed in the current epoch
C6_Witness == CurArrivals = WrapRun /\ Len(l_cur.ranges) = 2

\* an in-order, gap-free run: every arrival is the successor of the one
\* before it, modulo 2^U
GapFree(ss) == \A i \in 1..(Len(ss) - 1) : ss[i + 1] = U(ss[i] + 1)

\* the run steps from 2^U-1 to 0
CrossesWrap(ss) ==
    \E i \in 1..(Len(ss) - 1) : ss[i] = SEQ_MAX /\ ss[i + 1] = 0

\* C26: for an in-order, gap-free run of arrivals that crosses the wrap
\* point (for example 2^U-2, 2^U-1, 0, 1), spread over any number of epochs,
\* the loss estimator reports received = the number of arrivals and
\* dropped = 0 over the epochs processed.
C26_WrapRunTotals ==
    (GapFree(Flatten(l_hist)) /\ CrossesWrap(DoneArrivals)) =>
        /\ l_acc.received = Len(DoneArrivals)
        /\ l_acc.dropped = 0


\* C29: after every lossdata_a2r computation returns, the assembly chain is
\* empty (ldr.ranges has neither head nor tail) and every range that was
\* linked into it, of the present map or borrowed from a future one, has
\* its assembly link cleared, wraparound = 0 and arrival_period = PRESENT.
C29_ChainCleared ==
    /\ l_chain.head = NoRange
    /\ l_chain.tail = NoRange
    /\ \A k \in DOMAIN l_chain.ranges :
          l_chain.ranges[k].id # <<0, 0>> =>
              /\ l_chain.ranges[k].next_r = NoRange
              /\ l_chain.ranges[k].wraparound = 0
              /\ l_chain.ranges[k].arrival_period = "ARR_PRESENT"

\* the sequence numbers a range covers
Covered(r) == r.low..r.high

Distinct(ss) == \A i, j \in DOMAIN ss : i # j => ss[i] # ss[j]

\* C28: after any sequence of lossdata_arrival calls for one stream in one
\* epoch with pairwise distinct sequence numbers, every arrived sequence
\* number lies in exactly one range of that epoch's loss list, and the
\* ranges cover no sequence number that did not arrive.
C28_RangesPartition ==
    Distinct(CurArrivals) =>
        /\ \A x \in Range(CurArrivals) :
              Cardinality({i \in DOMAIN l_cur.ranges :
                              x \in Covered(l_cur.ranges[i])}) = 1
        /\ \A i \in DOMAIN l_cur.ranges :
              Covered(l_cur.ranges[i]) \subseteq Range(CurArrivals)

\* four distinct arrivals in one epoch, filed as a grown range and others
C28_Witness ==
    /\ Len(CurArrivals) = MaxArr
    /\ Distinct(CurArrivals)
    /\ Len(l_cur.ranges) \in 2..3

(***************************************************************************)
(*                                                                         *)
(*  PART R  --  reorder extent (RFC 4737) and reorder density (RFC 5236)   *)
(*                                                                         *)
(***************************************************************************)

\* ---- bounds of the reorder model
REORDER_MAX_EXTENT == 6    \* largest extent bin (build-time option)
REORDER_DT         == 2    \* displacement threshold (build-time option)
MaxRArr            == 3    \* arrivals of a free run
MaxNumArrivals     == 14   \* numArrivals is followed no further than this

REORDER_MAX_HISTORY == REORDER_MAX_EXTENT * 2
REORDER_WINDOW_SIZE == REORDER_DT * 2 + 1

\* the run of test_reorder.c
TestReorder == <<0, 1, 2, 4, 5, 7, 6, 5, 3, 9, 8, 10>>

\* the run across the wrap point, followed by a repeat of its third number
WrapReorder == <<SEQ_MAX - 1, SEQ_MAX, 0, 1, 0>>

\* a late packet and a loss, then a jump that leaves both far behind
PruneReorder == <<0, 2, 1, 4, 4 + REORDER_MAX_HISTORY + 4>>

\* sequence numbers of a free run: both sides of the wrap point
RSeqChoices == {0, 1, SEQ_MAX - 1, SEQ_MAX}

\* the arrivals of each kind of run
Script(k) ==
    CASE k = "test_reorder" -> TestReorder
      [] k = "wrap"         -> WrapReorder
      [] k = "prune"        -> PruneReorder
      [] OTHER              -> <<>>

\* ---- reorderdata.c: the aggregator side -----------------------------------

\* reorderdata_arrival(rd, seqno, free_ranges) on the range list: the tail
\* range grows when seqno follows its high end and is not 0, otherwise a new
\* one-number range is linked behind the tail
reorderdata_arrival(ranges, seqno) ==
    LET n == Len(ranges) IN
    IF n > 0 /\ ranges[n].high = U(seqno - 1) /\ seqno # 0
    THEN [ranges EXCEPT ![n].high = seqno]
    ELSE Append(ranges, Rng(seqno, seqno))

\* ---- reorderdata.c: records ------------------------------------------------

\* a reorderDataR after memset
ZeroRDR == [extentToCount |-> [b \in 0..REORDER_MAX_EXTENT |-> 0],
            FD |-> [b \in 0..(REORDER_WINDOW_SIZE - 1) |-> 0],
            extent_assumed_drops |-> 0,
            rd_assumed_drops |-> 0]

\* struct rdState before the first range: a FIFO window and an ordered
\* buffer of sequence numbers
ZeroRD == [state |-> 0, RI |-> 0, window_initialized |-> 0,
           window |-> <<>>, buffer |-> {}]

\* struct reorderState after memset; missingPackets maps a sequence number
\* to its record [observed, refIndex]
NoRecords == [s \in {} |-> [observed |-> 0, refIndex |-> 0]]
ZeroReorderState == [initialized |-> 0, numArrivals |-> 0, nextExp |-> 0,
                     missingPackets |-> NoRecords, RD |-> ZeroRD]

\* static void reorderdata_accumulate(accum, unit)
reorderdata_accumulate(accum, unit) ==
    [extentToCount |->
        [b \in 0..REORDER_MAX_EXTENT |->
            IF reorder_extent_enabled /\ b < REORDER_MAX_EXTENT
            THEN U(accum.extentToCount[b] + unit.extentToCount[b])
            ELSE accum.extentToCount[b]],
     extent_assumed_drops |->
        IF reorder_extent_enabled
        THEN U(accum.extent_assumed_drops + unit.extent_assumed_drops)
        ELSE accum.extent_assumed_drops,
     FD |->
        [b \in 0..(REORDER_WINDOW_SIZE - 1) |->
            IF reorder_density_enabled
            THEN U(accum.FD[b] + unit.FD[b])
            ELSE accum.FD[b]],
     rd_assumed_drops |->
        IF reorder_density_enabled
        THEN U(accum.rd_assumed_drops + unit.rd_assumed_drops)
        ELSE accum.rd_assumed_drops]

reorderdata_accumulate_time(accum, unit) == reorderdata_accumulate(accum, unit)

\* ---- reorderdata.c: reorder density ---------------------------------------

rd_window_contains(state, seq) ==
    \E k \in DOMAIN state.window : state.window[k] = seq

rd_buffer_contains(state, seq) == seq \in state.buffer

\* the queue after the call; the value returned is its length
rd_maybe_add_seq_to_window(RD, i) ==
    IF rd_window_contains(RD, i) THEN RD
    ELSE [RD EXCEPT !.window = Append(@, i)]

rd_add_seq_to_window(RD, i) == [RD EXCEPT !.window = Append(@, i)]

\* a call that leaves the search state without adding to the window
rd_maybe_add_new_arrival_to_window_noadd(state, seq) ==
    IF state.state = 0 THEN state
    ELSE IF /\ seq >= state.RI
            /\ ~rd_window_contains(state, seq)
            /\ ~rd_buffer_contains(state, seq)
         THEN [state EXCEPT !.state = 0]
         ELSE state

rd_maybe_add_new_arrival_to_window(state, seq) ==
    IF state.state = 0 THEN state
    ELSE IF /\ seq >= state.RI
            /\ ~rd_window_contains(state, seq)
            /\ ~rd_buffer_contains(state, seq)
         THEN [rd_add_seq_to_window(state, seq) EXCEPT !.state = 0]
         ELSE state

\* a record that counts the distance twice
rd_record_distance_twice(dr, D) ==
    IF D < -REORDER_DT \/ D > REORDER_DT THEN dr
    ELSE [dr EXCEPT !.FD[D + REORDER_DT] = U(@ + 2)]

rd_record_distance(dr, D) ==
    IF D < -REORDER_DT \/ D > REORDER_DT THEN dr
    ELSE [dr EXCEPT !.FD[D + REORDER_DT] = U(@ + 1)]

rd_maybe_delete_from_buffer(state, seq) ==
    [state EXCEPT !.buffer = @ \ {seq}]

rd_add_to_buffer(state, seq) == [state EXCEPT !.buffer = @ \cup {seq}]

rd_window_min(state) ==
    LET S == Range(state.window) \cup {SEQ_MAX}
    IN CHOOSE m \in S : \A x \in S : m <= x

rd_buffer_min(state) ==
    LET S == state.buffer \cup {SEQ_MAX}
    IN CHOOSE m \in S : \A x \in S : m <= x

rd_advance_RI(state) ==
    LET s1 == rd_window_min(state)
        s2 == rd_buffer_min(state)
        m  == IF s1 <= s2 THEN s1 ELSE s2
    IN IF state.RI < m THEN [state EXCEPT !.RI = m]
       ELSE [state EXCEPT !.RI = U(@ + 1)]

\* rd_process_next_packet(state, dr): [RD, dr, fault]; fault marks a pop of
\* the empty window, whose entry the code dereferences
rd_process_next_packet(state, dr) ==
    IF rd_window_contains(state, state.RI) \/ rd_buffer_contains(state, state.RI)
    THEN IF state.window = <<>>
         THEN [RD |-> state, dr |-> dr, fault |-> TRUE]
         ELSE LET e      == Head(state.window)
                  rest == [state EXCEPT !.window = Tail(@)]
                  D      == ToInt(U(state.RI - e))
                  AD     == IF D >= 0 THEN D ELSE -D
                  within == LET del == rd_maybe_delete_from_buffer(rest, state.RI)
                                buf == IF D < 0 THEN rd_add_to_buffer(del, e) ELSE del
                            IN [buf EXCEPT !.RI = U(@ + 1)]
              IN IF AD <= REORDER_DT
                 THEN [RD |-> [within EXCEPT !.state = 1],
                       dr |-> rd_record_distance(dr, D), fault |-> FALSE]
                 ELSE [RD |-> [rest EXCEPT !.state = 1],
                       dr |-> dr, fault |-> FALSE]
    ELSE [RD |-> [rd_advance_RI(state) EXCEPT !.state = 0],
          dr |-> dr, fault |-> FALSE]

\* one trip of the loop "for (SEQNO i = r->low; i <= r->high; i++)" of the
\* density estimator: [RD, dr, fault]
a2r_density_body(RD, dr, i) ==
    LET added == rd_maybe_add_seq_to_window(RD, i)
        R1 == IF RD.window_initialized # 0 THEN RD
              ELSE IF Len(added.window) = REORDER_DT + 1
                   THEN [added EXCEPT !.RI = 0, !.window_initialized = 1]
                   ELSE added
        processed_this == R1.state = 1
        R2 == IF R1.state = 1 THEN rd_maybe_add_new_arrival_to_window(R1, i)
              ELSE R1
        P  == IF R2.state = 0 THEN rd_process_next_packet(R2, dr)
              ELSE [RD |-> R2, dr |-> dr, fault |-> FALSE]
        R3 == IF P.RD.state = 1 /\ ~processed_this
              THEN rd_maybe_add_new_arrival_to_window(P.RD, i)
              ELSE P.RD
    IN IF R1.window_initialized = 0
       THEN [RD |-> R1, dr |-> dr, fault |-> FALSE]
       ELSE [RD |-> R3, dr |-> P.dr, fault |-> P.fault]

\* ---- reorderdata.c: reorder extent ----------------------------------------

\* a record that takes the arrival count itself as its reference index
reorderdata_record_missing_packet_early(rs, seq, refIndex) ==
    [rs EXCEPT !.missingPackets =
        (seq :> [observed |-> 0, refIndex |-> refIndex - 1]) @@ @]

reorderdata_record_missing_packet(rs, seq, refIndex) ==
    [rs EXCEPT !.missingPackets =
        (seq :> [observed |-> 0, refIndex |-> refIndex]) @@ @]

\* reorderdata_resolve_missing_packet(dr, rstate, seq): [dr, rstate, fault];
\* fault marks a write below extentToCount[0]
reorderdata_resolve_missing_packet(dr, rs, seq) ==
    IF seq \notin DOMAIN rs.missingPackets
    THEN [dr |-> dr, rstate |-> rs, fault |-> FALSE]
    ELSE LET mp           == rs.missingPackets[seq]
             arrivalIndex == U(rs.numArrivals)
             diff         == ToInt(U(arrivalIndex - mp.refIndex))
             extent       == IF diff > REORDER_MAX_EXTENT
                             THEN REORDER_MAX_EXTENT ELSE diff
         IN IF mp.observed = 0
            THEN IF extent < 0
                 THEN [dr |-> dr, rstate |-> rs, fault |-> TRUE]
                 ELSE [dr |-> [dr EXCEPT !.extentToCount[extent] = U(@ + 1)],
                       rstate |-> [rs EXCEPT !.missingPackets[seq].observed = 1],
                       fault |-> FALSE]
            ELSE [dr |-> dr,
                  rstate |-> [rs EXCEPT !.numArrivals = @ - 1],
                  fault |-> FALSE]

\* a pruning that counts every record it removes as a drop
reorderdata_prune_missing_packets_all(dr, rs) ==
    LET old == {s \in DOMAIN rs.missingPackets :
                   /\ seqcmp(s, rs.nextExp) < 0
                   /\ modular_distance(s, rs.nextExp) > REORDER_MAX_HISTORY}
        keep == DOMAIN rs.missingPackets \ old
    IN [dr |-> [dr EXCEPT !.extent_assumed_drops = U(@ + Cardinality(old))],
        rstate |-> [rs EXCEPT !.missingPackets =
                       [s \in keep |-> rs.missingPackets[s]]]]

\* reorderdata_prune_missing_packets(dr, rstate): [dr, rstate]
reorderdata_prune_missing_packets(dr, rs) ==
    LET old == {s \in DOMAIN rs.missingPackets :
                   /\ seqcmp(s, rs.nextExp) < 0
                   /\ modular_distance(s, rs.nextExp) > REORDER_MAX_HISTORY}
        lost == {s \in old : rs.missingPackets[s].observed = 0}
        keep == DOMAIN rs.missingPackets \ old
    IN [dr |-> [dr EXCEPT !.extent_assumed_drops = U(@ + Cardinality(lost))],
        rstate |-> [rs EXCEPT !.missingPackets =
                       [s \in keep |-> rs.missingPackets[s]]]]

\* the records made by "for (SEQNO i = rstate->nextExp; i != r->low; i++)"
RECURSIVE a2r_record_gap(_, _, _, _)
a2r_record_gap(rs, i, low, refIndex) ==
    IF i = low THEN rs
    ELSE a2r_record_gap(reorderdata_record_missing_packet(rs, i, refIndex),
                        U(i + 1), low, refIndex)

\* Case 1 of reorderdata_a2r: the range is in order: [dr, rstate]
a2r_case1(dr, rs, r) ==
    LET range_size == U(r.high - r.low + 1)
        gap == IF seqcmp(r.low, rs.nextExp) > 0
               THEN a2r_record_gap(rs, rs.nextExp, r.low, U(rs.numArrivals + 1))
               ELSE rs
    IN [dr |-> [dr EXCEPT !.extentToCount[0] = U(@ + range_size)],
        rstate |-> [gap EXCEPT !.nextExp = U(r.high + 1),
                               !.numArrivals = @ + range_size]]

\* one trip of the loop of Case 2 of reorderdata_a2r: [dr, rstate, fault]
a2r_case2_body(dr, rs, i) ==
    LET counted == [rs EXCEPT !.numArrivals = @ + 1]
    IN IF seqcmp(i, counted.nextExp) >= 0
       THEN [dr |-> [dr EXCEPT !.extentToCount[0] = U(@ + 1)],
             rstate |-> [counted EXCEPT !.nextExp = U(i + 1)],
             fault |-> FALSE]
       ELSE reorderdata_resolve_missing_packet(dr, counted, i)

\* the first range of a stream initializes the state
a2r_initialize(rs, r) ==
    IF rs.initialized # 0 THEN rs
    ELSE [initialized |-> 1,
          numArrivals |-> rs.numArrivals,
          nextExp |-> IF reorder_extent_enabled THEN r.low ELSE rs.nextExp,
          missingPackets |-> IF reorder_extent_enabled THEN NoRecords
                             ELSE rs.missingPackets,
          RD |-> IF reorder_density_enabled THEN ZeroRD ELSE rs.RD]

\* ---- the stream's life: aggregator and reporter ---------------------------

RInitWith(ext, den, script) ==
    /\ reorder_extent_enabled = ext
    /\ reorder_density_enabled = den
    /\ r_script = script
    /\ r_cur = <<>>
    /\ r_pend = <<>>
    /\ rstate = ZeroReorderState
    /\ r_dr = ZeroRDR
    /\ r_acc = ZeroRDR
    /\ r_pc = "idle"
    /\ r_list = <<>>
    /\ r_i = 0
    /\ r_hist = <<>>
    /\ r_ndone = 0
    /\ r_seen = {}
    /\ r_repeat = FALSE
    /\ r_snap = ZeroRDR.extentToCount
    /\ r_boot = 0

\* pd3_estimator_init: at least one of the two estimators is switched on
RInit ==
    \E ext \in BOOLEAN, den \in BOOLEAN,
       script \in {"any", "test_reorder", "wrap", "prune"} :
        /\ ext \/ den
        /\ RInitWith(ext, den, script)

RInitWrap ==
    \E ext \in BOOLEAN, den \in BOOLEAN :
        /\ ext \/ den
        /\ RInitWith(ext, den, "wrap")

RIdle == RInitWith(TRUE, TRUE, "any")

\* the numbers of a range and of a list of ranges
RangeSeqnos(r) == r.low .. r.high

RECURSIVE RangesSize(_)
RangesSize(ranges) ==
    IF ranges = <<>> THEN 0
    ELSE (Head(ranges).high - Head(ranges).low + 1) + RangesSize(Tail(ranges))

\* handle_packet_arrival: the stream's next packet
r_arrival(seqno) ==
    /\ IF r_script = "any"
       THEN Len(r_hist) < MaxRArr /\ seqno \in RSeqChoices
       ELSE /\ Len(r_hist) < Len(Script(r_script))
            /\ seqno = Script(r_script)[Len(r_hist) + 1]
    /\ r_cur' = reorderdata_arrival(r_cur, seqno)
    /\ r_hist' = Append(r_hist, seqno)
    /\ UNCHANGED <<reorder_extent_enabled, reorder_density_enabled, r_script,
                   r_pend, rstate, r_dr, r_acc, r_pc, r_list, r_i,
                   r_ndone, r_seen, r_repeat, r_snap, r_boot, notR>>

\* period_transition and the two exchanges: the map holding the stream's
\* ranges reaches the reporter's list
r_period_transition ==
    /\ r_cur # <<>>
    /\ r_pend' = Append(r_pend, r_cur)
    /\ r_cur' = <<>>
    /\ UNCHANGED <<reorder_extent_enabled, reorder_density_enabled, r_script,
                   rstate, r_dr, r_acc, r_pc, r_list, r_i, r_hist,
                   r_ndone, r_seen, r_repeat, r_snap, r_boot, notR>>

\* reporter_thread: memset(&rd) and the call of reorderdata_a2r
r_a2r_call ==
    /\ r_pc = "idle"
    /\ r_pend # <<>>
    /\ r_dr' = ZeroRDR
    /\ r_list' = Head(r_pend)
    /\ r_pc' = "range"
    /\ r_repeat' = FALSE
    /\ r_snap' = ZeroRDR.extentToCount
    /\ UNCHANGED <<reorder_extent_enabled, reorder_density_enabled, r_script,
                   r_cur, r_pend, rstate, r_acc, r_i, r_hist,
                   r_ndone, r_seen, r_boot, notR>>

\* reorderdata_a2r: the head of the loop over the ranges
r_a2r_range ==
    /\ r_pc = "range"
    /\ r_list # <<>>
    /\ LET r == Head(r_list) IN
        /\ rstate' = a2r_initialize(rstate, r)
        /\ r_i' = r.low
        /\ r_repeat' = (RangeSeqnos(r) \subseteq r_seen)
    /\ r_snap' = r_dr.extentToCount
    /\ r_pc' = IF reorder_density_enabled THEN "density" ELSE "extent"
    /\ UNCHANGED <<reorder_extent_enabled, reorder_density_enabled, r_script,
                   r_cur, r_pend, r_dr, r_acc, r_list, r_hist, r_ndone,
                   r_seen, r_boot, notR>>

\* the range is finished: r = r->next
a2r_next_range ==
    /\ r_seen' = r_seen \cup RangeSeqnos(Head(r_list))
    /\ r_list' = Tail(r_list)
    /\ r_pc' = "range"

\* history: the arrivals held by the ranges the reporter has reached, the
\* one in process included
ArrivalsReached ==
    r_ndone + RangesSize(Head(r_pend)) - RangesSize(Tail(r_list))

\* reorderdata_a2r: one test of "i <= r->high" of the density loop and the
\* trip or the exit that follows it
r_a2r_density ==
    /\ r_pc = "density"
    /\ IF r_i <= Head(r_list).high
       THEN /\ LET b == a2r_density_body(rstate.RD, r_dr, r_i) IN
                /\ rstate' = [rstate EXCEPT !.RD = b.RD]
                /\ r_dr' = b.dr
                /\ r_pc' = IF b.fault THEN "fault" ELSE r_pc
                /\ r_boot' = IF /\ b.RD.window_initialized # 0
                                /\ r_boot < ArrivalsReached
                             THEN r_boot + 1 ELSE r_boot
            /\ r_i' = U(r_i + 1)
            /\ UNCHANGED <<r_list, r_seen>>
       ELSE /\ IF reorder_extent_enabled
               THEN r_pc' = "extent" /\ UNCHANGED <<r_list, r_seen>>
               ELSE a2r_next_range
            /\ UNCHANGED <<rstate, r_dr, r_i, r_boot>>
    /\ UNCHANGED <<reorder_extent_enabled, reorder_density_enabled, r_script,
                   r_cur, r_pend, r_acc, r_hist, r_ndone, r_repeat, r_snap,
                   notR>>

\* reorderdata_a2r: Case 1 at once, or the entry of the loop of Case 2
r_a2r_extent ==
    /\ r_pc = "extent"
    /\ LET r == Head(r_list) IN
       IF seqcmp(r.low, rstate.nextExp) >= 0
       THEN LET c == a2r_case1(r_dr, rstate, r) IN
            /\ r_dr' = c.dr
            /\ rstate' = c.rstate
            /\ a2r_next_range
            /\ UNCHANGED r_i
       ELSE /\ r_i' = r.low
            /\ r_pc' = "case2"
            /\ UNCHANGED <<r_dr, rstate, r_list, r_seen>>
    /\ UNCHANGED <<reorder_extent_enabled, reorder_density_enabled, r_script,
                   r_cur, r_pend, r_acc, r_hist, r_ndone, r_repeat, r_snap,
                   r_boot, notR>>

\* reorderdata_a2r: one test of "i <= r->high" of the loop of Case 2 and the
\* trip or the exit that follows it
r_a2r_case2 ==
    /\ r_pc = "case2"
    /\ IF r_i <= Head(r_list).high
       THEN /\ rstate.numArrivals < MaxNumArrivals
            /\ LET b == a2r_case2_body(r_dr, rstate, r_i) IN
                /\ rstate' = b.rstate
                /\ r_dr' = b.dr
                /\ r_pc' = IF b.fault THEN "fault" ELSE r_pc
            /\ r_i' = U(r_i + 1)
            /\ UNCHANGED <<r_list, r_seen>>
       ELSE /\ a2r_next_range
            /\ UNCHANGED <<rstate, r_dr, r_i>>
    /\ UNCHANGED <<reorder_extent_enabled, reorder_density_enabled, r_script,
                   r_cur, r_pend, r_acc, r_hist, r_ndone, r_repeat, r_snap,
                   r_boot, notR>>

\* reorderdata_a2r after the last range, then the reporter's accumulate_time
\* and the recycling of the map
r_a2r_return ==
    /\ r_pc = "range"
    /\ r_list = <<>>
    /\ LET p == IF reorder_extent_enabled
                THEN reorderdata_prune_missing_packets(r_dr, rstate)
                ELSE [dr |-> r_dr, rstate |-> rstate] IN
        /\ r_dr' = p.dr
        /\ rstate' = p.rstate
        /\ r_acc' = reorderdata_accumulate_time(r_acc, p.dr)
    /\ r_ndone' = r_ndone + RangesSize(Head(r_pend))
    /\ r_pend' = Tail(r_pend)
    /\ r_pc' = "idle"
    /\ UNCHANGED <<reorder_extent_enabled, reorder_density_enabled, r_script,
                   r_cur, r_list, r_i, r_hist, r_seen, r_repeat,
                   r_snap, r_boot, notR>>

RReporter ==
    \/ r_a2r_call
    \/ r_a2r_range
    \/ r_a2r_density
    \/ r_a2r_extent
    \/ r_a2r_case2
    \/ r_a2r_return

RNext ==
    \/ \E seqno \in 0..SEQ_MAX : r_arrival(seqno)
    \/ r_period_transition
    \/ r_a2r_call
    \/ r_a2r_range
    \/ r_a2r_density
    \/ r_a2r_extent
    \/ r_a2r_case2
    \/ r_a2r_return

(***************************************************************************)
(* Claims about the reorder density estimator                              *)
(***************************************************************************)

\* the sum of the bins FD[-DT..+DT] of a reorderDataR
RECURSIVE SumFD(_, _)
SumFD(dr, b) ==
    IF b >= REORDER_WINDOW_SIZE THEN 0 ELSE dr.FD[b] + SumFD(dr, b + 1)

\* C21: after any arrival sequence, the sum of all reorder-density bins
\* FD[-DT..+DT] over all reports is at most the number of arrivals the
\* density loop has processed from the one that completed the window
\* bootstrap onward.
C21_DensityBound == SumFD(r_acc, 0) <= r_boot

\* a report holds a distance, and arrivals were processed after the
\* bootstrap that gave none
C21_Witness ==
    /\ r_pc = "idle"
    /\ SumFD(r_acc, 0) >= 1
    /\ SumFD(r_acc, 0) < r_boot

(***************************************************************************)
(* Claims about the reorder extent estimator                               *)
(***************************************************************************)

\* a histogram with the given counts in bins 0, 1 and 5 and 0 elsewhere
Bins(b0, b1, b5) ==
    [b \in 0..REORDER_MAX_EXTENT |->
        CASE b = 0 -> b0 [] b = 1 -> b1 [] b = 5 -> b5 [] OTHER -> 0]

\* the first four arrivals are 2^U-2, 2^U-1, 0, 1 and the maps that hold
\* them, and nothing else, are with the reporter
C7_Handed ==
    /\ reorder_extent_enabled
    /\ r_hist = SubSeq(WrapReorder, 1, 4)
    /\ r_cur = <<>>

\* the reporter is through with exactly those maps: bin 0 holds 4, every
\* other bin 0, and there is no missing-packet record
C7_Counted ==
    /\ r_ndone = 4
    /\ r_pc = "idle"
    /\ r_acc.extentToCount = Bins(4, 0, 0)
    /\ DOMAIN rstate.missingPackets = {}

\* C7: when the first arrivals of a stream are 2^U-2, 2^U-1, 0, 1 in that
\* order, the extent estimator counts all four as in-order: bin 0 grows by
\* 4, no other bin changes and no missing-packet record is created.
C7_WrapInOrder == C7_Handed ~> C7_Counted

\* C37: reorderdata_a2r terminates for every range list and every value of
\* the low and the high bound of a range, high = 2^U-1 included, with the
\* density and the extent estimator enabled: a call that has started on its
\* ranges returns.
C37_A2RTerminates ==
    (reorder_extent_enabled /\ reorder_density_enabled /\ r_pc = "range")
        ~> (r_pc = "idle")

\* the density estimator is past its bootstrap and in state 0 (processing)
Processing ==
    rstate.RD.window_initialized # 0 /\ rstate.RD.state = 0

\* the density loop is about to make a trip
DensityTrip == r_pc = "density" /\ r_i <= Head(r_list).high

\* C40: for every arrival sequence, whenever the density estimator is in
\* state 0 (processing) after bootstrap its window is non-empty, so the pop
\* of the window head in rd_process_next_packet always has an element to
\* pop, also when the receive index RI is present only in the buffer.
C40_WindowHasHead ==
    /\ Processing => rstate.RD.window # <<>>
    /\ DensityTrip => ~a2r_density_body(rstate.RD, r_dr, r_i).fault

\* the estimator as the trip hands it to rd_process_next_packet: a trip
\* that starts in the search state first offers its number to the window
AtProcess ==
    IF rstate.RD.state = 1
    THEN rd_maybe_add_new_arrival_to_window(rstate.RD, r_i)
    ELSE rstate.RD

\* a trip is about to pop the window head for a receive index that is in
\* the buffer and not in the window
C40_Witness ==
    /\ DensityTrip
    /\ rstate.RD.window_initialized # 0
    /\ AtProcess.state = 0
    /\ rd_buffer_contains(AtProcess, AtProcess.RI)
    /\ ~rd_window_contains(AtProcess, AtProcess.RI)

\* the run of test_reorder.c is through: every arrival is in a map that
\* reorderdata_a2r has finished
C8_TestDone ==
    /\ r_script = "test_reorder"
    /\ reorder_extent_enabled
    /\ r_ndone = Len(TestReorder)
    /\ r_pc = "idle"

\* the histogram of the run
C8_Histogram ==
    C8_TestDone =>
        /\ r_acc.extentToCount = Bins(8, 2, 1)
        /\ r_acc.extent_assumed_drops = 0

\* a step that counts a range in order adds its size to bin 0 and nothing
\* to any other bin
C8_InOrderStep ==
    (r_pc = "extent" /\ r_pc' = "range") =>
        r_dr'.extentToCount =
            [r_dr.extentToCount EXCEPT
                ![0] = @ + (Head(r_list).high - Head(r_list).low + 1)]

\* a step that marks a record observed adds one to the bin of the arrival
\* index minus the record's reference index, capped, and nothing to any
\* other bin; a record once observed stays observed
C8_LateStep ==
    \A s \in DOMAIN rstate.missingPackets :
        LET mp == rstate.missingPackets[s] IN
        /\ (/\ mp.observed = 0
            /\ s \in DOMAIN rstate'.missingPackets
            /\ rstate'.missingPackets[s].observed = 1)
           => /\ s = r_i
              /\ r_dr'.extentToCount =
                    [r_dr.extentToCount EXCEPT
                        ![min(rstate'.numArrivals - mp.refIndex,
                              REORDER_MAX_EXTENT)] = @ + 1]
        /\ (mp.observed = 1 /\ s \in DOMAIN rstate'.missingPackets)
           => rstate'.missingPackets[s].observed = 1

\* C8: in-order packets are counted in extent bin 0 and a late packet is
\* counted once in the bin equal to its arrival index minus the reference
\* index recorded when its gap was detected, capped at MAX_EXTENT; for a
\* fresh stream receiving 0,1,2,4,5,7,6,5,3,9,8,10 the histogram is
\* bin[0]=8, bin[1]=2, bin[5]=1, every other bin 0, and assumed_drops 0.
C8_ExtentBins ==
    /\ []C8_Histogram
    /\ [][C8_InOrderStep /\ C8_LateStep]_vars

\* the run is through and nothing is left with the aggregator
C8_Witness == C8_TestDone /\ r_pend = <<>> /\ r_cur = <<>>

\* all arrivals lie within one half of the sequence space
HalfSpan ==
    \E base \in {0, SEQ_MAX - 1} :
        \A k \in DOMAIN r_hist : U(r_hist[k] - base) < SEQ_HALF

\* C9: within any run of arrivals spanning less than half the sequence
\* space, a sequence number that has already been delivered adds nothing to
\* any extent bin when it arrives again: a range made only of numbers of
\* ranges already finished leaves every extent bin as it found it.
C9_RepeatAddsNothing ==
    (reorder_extent_enabled /\ HalfSpan /\ r_repeat) =>
        r_dr.extentToCount = r_snap

\* the arrivals of the maps reorderdata_a2r has finished
RDoneArrivals == SubSeq(r_hist, 1, r_ndone)

\* the arrivals that are not repeats of a number delivered before them
NotRepeats(ss) ==
    {k \in DOMAIN ss : \A j \in 1..(k - 1) : ss[j] # ss[k]}

\* C30: a duplicate arrival never changes the extent estimator's arrival
\* counter: after processing any arrival sequence, numArrivals equals the
\* number of arrivals that were not repeats of an already delivered
\* sequence number.
C30_DuplicatesNotCounted ==
    (reorder_extent_enabled /\ r_pc = "idle") =>
        rstate.numArrivals = Cardinality(NotRepeats(RDoneArrivals))

\* the missing-packet records before and after a step
Records     == DOMAIN rstate.missingPackets
BecameObserved ==
    {s \in Records \cap DOMAIN rstate'.missingPackets :
        /\ rstate.missingPackets[s].observed = 0
        /\ rstate'.missingPackets[s].observed = 1}
Pruned      == Records \ DOMAIN rstate'.missingPackets
PrunedUnobserved == {s \in Pruned : rstate.missingPackets[s].observed = 0}

RECURSIVE SumBins(_, _)
SumBins(dr, b) ==
    IF b > REORDER_MAX_EXTENT THEN 0
    ELSE dr.extentToCount[b] + SumBins(dr, b + 1)

\* a step of reorderdata_a2r that moves a record
C31_RecordStep ==
    (r_pc # "idle" /\ (BecameObserved # {} \/ Pruned # {})) =>
        \* one record at a time becomes observed, and it adds one to one bin
        /\ BecameObserved # {} =>
              /\ BecameObserved = {r_i}
              /\ Pruned = {}
              /\ SumBins(r_dr', 0) = SumBins(r_dr, 0) + 1
              /\ r_dr'.extent_assumed_drops = r_dr.extent_assumed_drops
        \* pruning adds one to assumed_drops per unobserved record and
        \* nothing to a bin, and takes only records far behind nextExp
        /\ Pruned # {} =>
              /\ BecameObserved = {}
              /\ r_dr'.extentToCount = r_dr.extentToCount
              /\ r_dr'.extent_assumed_drops =
                    r_dr.extent_assumed_drops + Cardinality(PrunedUnobserved)
              /\ \A s \in Pruned :
                    /\ seqcmp(s, rstate.nextExp) < 0
                    /\ U(rstate.nextExp - s) > REORDER_MAX_HISTORY

\* a record that stays stays as it is or becomes observed; none is made
\* again while it exists
C31_RecordOrder ==
    \A s \in Records \cap DOMAIN rstate'.missingPackets :
        /\ rstate'.missingPackets[s].observed
              >= rstate.missingPackets[s].observed
        /\ rstate'.missingPackets[s].refIndex
              = rstate.missingPackets[s].refIndex

\* C31: each missing-packet record only moves missing -> observed -> pruned
\* or missing -> pruned; it increments an extent bin exactly once, when it
\* becomes observed, or assumed_drops exactly once, when it is pruned while
\* still unobserved, never both and never twice; and it is pruned only when
\* its sequence number precedes nextExp by more than 2 * MAX_EXTENT.
C31_RecordLife == [][C31_RecordStep /\ C31_RecordOrder]_vars

\* an observed record and unobserved ones have been pruned in one epoch
C31_Witness ==
    /\ r_script = "prune"
    /\ r_pc = "idle"
    /\ r_ndone = Len(PruneReorder)
    /\ r_dr.extent_assumed_drops > 0
    /\ r_acc.extentToCount[1] = 1
    /\ 1 \notin Records /\ 3 \notin Records

(***************************************************************************)
(*                                                                         *)
(*  PART T  --  trackers, roll-up of streams into flows, report schedule   *)
(*                                                                         *)
(***************************************************************************)

\* ---- bounds of the tracker model
MaxTArr  == 3    \* packets pushed in a run
MaxTMaps == 2    \* maps handed to the reporter in a run
MaxTime  == 2    \* ticks of the clock in a run

\* the stream tuples of a run: a flow of two streams and a flow of one
FlowKeys  == {1, 2}
StreamIds == {0, 1}
Streams   == {[flow_key |-> 1, stream_id |-> 0],
              [flow_key |-> 1, stream_id |-> 1],
              [flow_key |-> 2, stream_id |-> 1]}

\* ---- hashmap2.c -------------------------------------------------------------

HMK_STREAMTUPLE == "HMK_STREAMTUPLE"
HMK_FLOWTUPLE   == "HMK_FLOWTUPLE"

set_streamtuple(stream) == [keytype |-> HMK_STREAMTUPLE, stream |-> stream]

\* a flow key that keeps the stream's id
set_flowtuple_keep_id(stream) == [keytype |-> HMK_FLOWTUPLE, stream |-> stream]

set_flowtuple(stream) ==
    [keytype |-> HMK_FLOWTUPLE, stream |-> [stream EXCEPT !.stream_id = 0]]

\* does the map hold an item with this key
hashmap_retrieve(items, k) == \E n \in DOMAIN items : items[n].key = k

\* position of the item with this key
hashmap_index(items, k) == CHOOSE n \in DOMAIN items : items[n].key = k

\* add_hashmapitem: a zeroed item becomes the head of the list
add_hashmapitem(items, k) == <<[key |-> k, packet_count |-> 0]>> \o items

\* hashmap_force: the item list after the call
hashmap_force(items, k) ==
    IF hashmap_retrieve(items, k) THEN items ELSE add_hashmapitem(items, k)

zeroout_hashmap(items) == <<>>

\* ---- packetdata.c -----------------------------------------------------------

\* PACKETCOUNT arithmetic, at the width of the model
packetdata_arrival(packet_count) == U(packet_count + 1)

packetdata_accumulate(accum, unit) == U(accum + unit)

\* accumulate_time / accumulate_flow on the item with key k, made if absent
accumulate_into(items, k, unit) ==
    LET forced == hashmap_force(items, k)
        n == hashmap_index(forced, k)
    IN [forced EXCEPT ![n].packet_count = packetdata_accumulate(@, unit)]

\* ---- reportschedule.c --------------------------------------------------------

\* struct repeating_item
repeating_item(outlets, interval, next_run) ==
    [outlets |-> outlets, interval |-> interval, next_run |-> next_run]

\* A schedule string is a sequence of entries, the text between two ';'.
\* An entry is its outlets, the text before the first ',', and the fields
\* that follow it.  Of a field the parser looks at two things: whether its
\* first character is a digit or '.', and the value atof gives it, here in
\* ticks of the model's clock.
Num(n)    == [digit |-> TRUE,  val |-> n]     \* "5", "2.5", ".5"
Signed(n) == [digit |-> FALSE, val |-> n]     \* "+5": a number to atof only
Word      == [digit |-> FALSE, val |-> 0]     \* "abc": atof gives 0.0
Entry(outlets, fields) == [outlets |-> outlets, fields |-> fields]

\* set_schedule, the loop over the entries: items holds the entries parsed
\* so far, nitems = Len(items).  The result is the return value and the
\* items that were completed.
RECURSIVE set_schedule_loop(_, _, _)
set_schedule_loop(sch, timezero, items) ==
    IF sch = <<>> THEN [ret |-> 0, items |-> items]
    ELSE LET e == Head(sch)
             f == e.fields
             failed == [ret |-> -1, items |-> items]
         IN IF Len(f) < 1 THEN failed
            ELSE IF ~f[1].digit THEN failed
            ELSE IF Len(f) < 2 \/ f[2].val = 0
            THEN set_schedule_loop(Tail(sch), timezero,
                     Append(items, repeating_item(e.outlets, f[1].val,
                                                  timezero + f[1].val)))
            ELSE IF ~f[2].digit THEN failed
            ELSE set_schedule_loop(Tail(sch), timezero,
                     Append(items, repeating_item(e.outlets, f[1].val,
                                                  timezero + f[2].val)))

\* set_schedule(sch) when now() returns timezero; nitems is 0 on entry
set_schedule(sch, timezero) == set_schedule_loop(sch, timezero, <<>>)

\* the schedule strings of a run: "c,1", "c,2,1;c,1,0" and "x,1;cx,2,0",
\* where 'x' is a destination code other than 'c'
Schedules ==
    { <<Entry({"c"}, <<Num(1)>>)>>,
      <<Entry({"c"}, <<Num(2), Num(1)>>), Entry({"c"}, <<Num(1), Num(0)>>)>>,
      <<Entry({"x"}, <<Num(1)>>), Entry({"c", "x"}, <<Num(2), Num(0)>>)>> }

schedule_parallelism == Len(schedule)

\* schedule_outlets(x) when now() returns t: {} stands for NULL
schedule_outlets(x, t) ==
    IF t < schedule[x].next_run THEN {} ELSE schedule[x].outlets

\* ceil of a quotient of non-negative numbers
ceil(a, b) == (a + b - 1) \div b

\* a reset that counts the next interval from the time of the reset
schedule_reset_from_now(x, t) == t + schedule[x].interval

\* schedule_reset(x) when now() returns t: the slot's new next_run
schedule_reset(x, t) ==
    LET ri == schedule[x]
    IN ri.next_run + ri.interval * ceil(t - ri.next_run, ri.interval)

\* get_duration(x), for the slots numbered from 1
get_duration(x) ==
    IF x - 1 < schedule_parallelism THEN schedule[x].interval ELSE 0

\* ---- pd3_estimator.c: the reporter's use of the trackers ---------------------

\* reporter_thread, lines 636-655: every item of the map is accumulated into
\* the given tracker, in list order
RECURSIVE accumulate_map(_, _)
accumulate_map(tracker, items) ==
    IF items = <<>> THEN tracker
    ELSE accumulate_map(
            accumulate_into(tracker, Head(items).key, Head(items).packet_count),
            Tail(items))

\* reporter_thread, lines 664-674: the walk starts at the head the list has
\* when the roll-up begins; todo is what is left of that walk
RECURSIVE roll_up(_, _)
roll_up(tracker, todo) ==
    IF todo = <<>> THEN tracker
    ELSE LET hmi_r == Head(todo) IN
         IF hmi_r.key.keytype = HMK_STREAMTUPLE
         THEN roll_up(accumulate_into(tracker, set_flowtuple(hmi_r.key.stream),
                                      hmi_r.packet_count),
                      Tail(todo))
         ELSE roll_up(tracker, Tail(todo))

\* reporter_thread, lines 675-691: the results handed to the callback, in
\* call order
RECURSIVE invoke_callbacks(_)
invoke_callbacks(tracker) ==
    IF tracker = <<>> THEN <<>>
    ELSE LET hmi_r == Head(tracker) IN
         IF hmi_r.key.keytype # HMK_FLOWTUPLE \/ hmi_r.packet_count = 0
         THEN invoke_callbacks(Tail(tracker))
         ELSE <<[flow_key |-> hmi_r.key.stream.flow_key,
                 packet_count |-> hmi_r.packet_count]>>
              \o invoke_callbacks(Tail(tracker))

\* ---- the run: aggregator, clock and reporter --------------------------------

NoPackets == [st \in Streams |-> 0]

\* the state when pd3_estimator_init returns: it was given the schedule
\* string sch and the callbacks cb, and set_schedule read the clock at t0
TInitWith(sch, cb, t0) ==
    /\ schedule = set_schedule(sch, t0).items
    /\ callbacks = cb
    /\ t_now = t0
    /\ t_cur = <<>>
    /\ t_pend = <<>>
    /\ trackers = [i \in DOMAIN sch |-> <<>>]
    /\ t_pc = "idle"
    /\ t_slot = 1
    /\ t_run = [arrivals |-> 0, maps |-> 0, sch |-> sch, timezero |-> t0]
    /\ t_arrived = <<NoPackets>>
    /\ t_since = [i \in DOMAIN sch |-> NoPackets]
    /\ t_last = [slot |-> 0, outlets |-> {}, calls |-> <<>>,
                 expected |-> NoPackets, at |-> 0, due |-> 0, duration |-> 0]

\* pd3_estimator_init: the schedule string and the callbacks of the caller
TInit == \E sch \in Schedules, cb \in BOOLEAN : TInitWith(sch, cb, 0)

\* the same with a callback registered, for the clock values of a run
TInitClock == \E sch \in Schedules, t0 \in {0, 1} : TInitWith(sch, TRUE, t0)

TIdle == TInitWith(<<Entry({"c"}, <<Num(1)>>)>>, TRUE, 0)

\* handle_packet_arrival: a packet of the given stream
t_arrival(stream) ==
    /\ t_run.arrivals < MaxTArr
    /\ LET k == set_streamtuple(stream)
           forced == hashmap_force(t_cur, k)
           n == hashmap_index(forced, k)
       IN t_cur' = [forced EXCEPT
                       ![n].packet_count = packetdata_arrival(@)]
    /\ t_run' = [t_run EXCEPT !.arrivals = @ + 1]
    /\ t_arrived' = [t_arrived EXCEPT ![Len(t_arrived)][stream] = @ + 1]
    /\ UNCHANGED <<schedule, callbacks, t_now, t_pend, trackers, t_pc, t_slot,
                   t_since, t_last, notT>>

\* period_transition and the two exchanges: the latest map, empty or not,
\* reaches the reporter and a zeroed map takes its place
t_period_transition ==
    /\ t_run.maps < MaxTMaps
    /\ t_pend' = Append(t_pend, t_cur)
    /\ t_cur' = <<>>
    /\ t_run' = [t_run EXCEPT !.maps = @ + 1]
    /\ t_arrived' = Append(t_arrived, NoPackets)
    /\ UNCHANGED <<schedule, callbacks, t_now, trackers, t_pc, t_slot,
                   t_since, t_last, notT>>

\* time passes
t_tick ==
    /\ t_now < t_run.timezero + MaxTime
    /\ t_now' = t_now + 1
    /\ UNCHANGED <<schedule, callbacks, t_cur, t_pend, trackers, t_pc, t_slot,
                   t_run, t_arrived, t_since, t_last, notT>>

\* reporter_thread, lines 636-655: the earliest map goes into every tracker
t_accumulate ==
    /\ t_pc = "idle"
    /\ t_pend # <<>>
    /\ trackers' = [i \in DOMAIN trackers |->
                       accumulate_map(trackers[i], Head(t_pend))]
    /\ t_since' = [i \in DOMAIN t_since |->
                      [st \in Streams |-> t_since[i][st] + Head(t_arrived)[st]]]
    /\ t_pc' = "report"
    /\ t_slot' = 1
    /\ UNCHANGED <<schedule, callbacks, t_now, t_cur, t_pend, t_run,
                   t_arrived, t_last, notT>>

\* reporter_thread, lines 658-698: one trip of the loop over the slots; the
\* clock may move between the two calls of now()
t_report ==
    /\ t_pc = "report"
    /\ t_slot <= schedule_parallelism
    /\ LET outlets == schedule_outlets(t_slot, t_now)
           rolled  == roll_up(trackers[t_slot], trackers[t_slot])
       IN IF outlets = {}
          THEN UNCHANGED <<schedule, t_now, trackers, t_since, t_last>>
          ELSE /\ \E d \in {0, 1} :
                    /\ t_now + d <= t_run.timezero + MaxTime
                    /\ t_now' = t_now + d
               /\ schedule' = [schedule EXCEPT
                      ![t_slot].next_run = schedule_reset(t_slot, t_now')]
               /\ trackers' = [trackers EXCEPT
                      ![t_slot] = zeroout_hashmap(rolled)]
               /\ t_last' = [slot |-> t_slot, outlets |-> outlets,
                             calls |-> IF "c" \in outlets /\ callbacks
                                       THEN invoke_callbacks(rolled)
                                       ELSE <<>>,
                             expected |-> t_since[t_slot],
                             at |-> t_now,
                             due |-> schedule[t_slot].next_run,
                             duration |-> get_duration(t_slot)]
               /\ t_since' = [t_since EXCEPT ![t_slot] = NoPackets]
    /\ t_slot' = t_slot + 1
    /\ UNCHANGED <<callbacks, t_cur, t_pend, t_pc, t_run, t_arrived, notT>>

\* reporter_thread, lines 699-705: the map is recycled
t_recycle ==
    /\ t_pc = "report"
    /\ t_slot > schedule_parallelism
    /\ t_pend' = Tail(t_pend)
    /\ t_arrived' = Tail(t_arrived)
    /\ t_pc' = "idle"
    /\ UNCHANGED <<schedule, callbacks, t_now, t_cur, trackers, t_slot,
                   t_run, t_since, t_last, notT>>

TNext ==
    \/ \E stream \in Streams : t_arrival(stream)
    \/ t_period_transition
    \/ t_tick
    \/ t_accumulate
    \/ t_report
    \/ t_recycle

\* a run in which one stream carries all the packets
TCNext ==
    \/ t_arrival([flow_key |-> 1, stream_id |-> 0])
    \/ t_period_transition
    \/ t_tick
    \/ t_accumulate
    \/ t_report
    \/ t_recycle

(***************************************************************************)
(* Claims about the reports                                                *)
(***************************************************************************)

\* packets of all streams of a flow in a per-stream count
FlowTotal(count, f) ==
    LET RECURSIVE Sum(_)
        Sum(ids) == IF ids = {} THEN 0
                    ELSE LET id == CHOOSE x \in ids : TRUE
                             st == [flow_key |-> f, stream_id |-> id]
                         IN (IF st \in Streams THEN count[st] ELSE 0)
                            + Sum(ids \ {id})
    IN Sum(StreamIds)

\* the calls made for a flow in the latest firing
CallsFor(f) == SelectSeq(t_last.calls, LAMBDA c : c.flow_key = f)

\* the latest firing was of a slot that reports to the callback
CallbackFired == t_last.slot # 0 /\ "c" \in t_last.outlets /\ callbacks

\* C10: when a slot fires, the callback is invoked exactly once for each
\* flow with at least one packet in the slot's accumulated data and never
\* with packet_count = 0; the packet_count reported is the sum of the packet
\* counts of all streams of the flow accumulated since the slot last fired.
C10_OneCallPerFlow ==
    CallbackFired =>
        /\ \A f \in FlowKeys :
            LET total == FlowTotal(t_last.expected, f) IN
            CallsFor(f) = IF total > 0
                          THEN <<[flow_key |-> f, packet_count |-> total]>>
                          ELSE <<>>
        /\ \A n \in DOMAIN t_last.calls : t_last.calls[n].packet_count # 0

\* a firing that reported two flows, one of them made of two streams
C10_Witness ==
    /\ CallbackFired
    /\ Len(t_last.calls) = 2
    /\ \A st \in Streams : t_last.expected[st] > 0

\* next_run of slot i when set_schedule has parsed its entry: timezero plus
\* the offset, or plus the interval when the offset is 0 or left out
FirstRun(i) ==
    LET f == t_run.sch[i].fields
    IN t_run.timezero
         + (IF Len(f) < 2 \/ f[2].val = 0 THEN f[1].val ELSE f[2].val)

\* C17: for a schedule entry with interval I and offset O parsed at time t0,
\* next_run starts at t0 + O (t0 + I when O is 0 or omitted) and afterwards
\* always equals that value plus a whole multiple of I; the slot fires only
\* at times now >= next_run, and every report of the slot carries the
\* duration I.
C17_PhaseStable ==
    /\ \A i \in DOMAIN schedule :
          LET I == t_run.sch[i].fields[1].val IN
          /\ schedule[i].interval = I
          /\ schedule[i].next_run >= FirstRun(i)
          /\ (schedule[i].next_run - FirstRun(i)) % I = 0
          /\ t_run.maps = 0 => schedule[i].next_run = FirstRun(i)
    /\ t_last.slot # 0 =>
          /\ t_last.at >= t_last.due
          /\ t_last.duration = t_run.sch[t_last.slot].fields[1].val

\* the slot "c,2,1", parsed at time 1, fired late at time 3 and reported to
\* the callback; its next run is 4, one interval after the first
C17_Witness ==
    /\ t_run.timezero = 1
    /\ Len(schedule) = 2
    /\ t_last.slot = 1
    /\ t_last.calls # <<>>
    /\ t_last.due = 2
    /\ t_last.at = 3
    /\ schedule[1].next_run = 4

\* a trip of the reporter's loop over the slots in which the slot fires and
\* schedule_reset is called for it
ResetStep ==
    /\ t_pc = "report"
    /\ t_slot <= schedule_parallelism
    /\ t_slot' = t_slot + 1
    /\ schedule_outlets(t_slot, t_now) # {}

\* C35: schedule_reset(i), called at a time now >= next_run of the slot,
\* strictly advances next_run, so that immediately after the reset
\* schedule_outlets(i) answers NULL, until a further boundary of the
\* interval is reached.
C35_ResetAdvances ==
    [][ResetStep =>
         /\ schedule'[t_slot].next_run > schedule[t_slot].next_run
         /\ t_now' < schedule'[t_slot].next_run
      ]_vars

(***************************************************************************)
(*                                                                         *)
(*  PART F  --  sequence number arithmetic and flow states as functions    *)
(*                                                                         *)
(***************************************************************************)

\* enum flowState
FlowStates ==
    {"FS_NULL", "FS_D", "FS_P", "FS_DP", "FS_PD", "FS_DPD", "FS_ERROR"}

NoCall == [fn |-> "none", val |-> <<>>]

FInitWith(s, t, fs) ==
    /\ f_s = s
    /\ f_t = t
    /\ f_fs = fs
    /\ f_out = NoCall

\* any two sequence numbers of the U-bit space
FInitSeq ==
    \E s, t \in 0..SEQ_MAX :
        FInitWith(s, t, <<"FS_NULL", "FS_NULL", "FS_NULL">>)
\* any three flow states
FInitFlow == \E a, b, c \in FlowStates : FInitWith(0, 0, <<a, b, c>>)
FIdle == FInitWith(0, 0, <<"FS_NULL", "FS_NULL", "FS_NULL">>)

\* seqcmp is called on (s, t), on (t, s) and on (s, s)
f_seqcmp ==
    /\ f_out' = [fn |-> "seqcmp",
                 val |-> <<seqcmp(f_s, f_t), seqcmp(f_t, f_s),
                           seqcmp(f_s, f_s)>>]
    /\ UNCHANGED <<f_s, f_t, f_fs, notF>>

\* modular_distance is called on (s, t) and on (s, s)
f_modular_distance ==
    /\ f_out' = [fn |-> "modular_distance",
                 val |-> <<modular_distance(f_s, f_t),
                           modular_distance(f_s, f_s)>>]
    /\ UNCHANGED <<f_s, f_t, f_fs, notF>>

\* flowstate_concatenate is called on the three operands in both groupings,
\* with FS_NULL on the right and with FS_ERROR on either side
f_concatenate ==
    /\ LET a == f_fs[1]
           b == f_fs[2]
           c == f_fs[3] IN
       f_out' = [fn |-> "flowstate_concatenate",
                 val |-> <<flowstate_concatenate(a, "FS_NULL"),
                           flowstate_concatenate(flowstate_concatenate(a, b), c),
                           flowstate_concatenate(a, flowstate_concatenate(b, c)),
                           flowstate_concatenate("FS_ERROR", a),
                           flowstate_concatenate(a, "FS_ERROR")>>]
    /\ UNCHANGED <<f_s, f_t, f_fs, notF>>

\* flowstate_delimit and flowstate_packet are called on the first operand
f_transition ==
    /\ f_out' = [fn |-> "flowstate_transition",
                 val |-> <<flowstate_delimit(f_fs[1]),
                           flowstate_packet(f_fs[1])>>]
    /\ UNCHANGED <<f_s, f_t, f_fs, notF>>

FSeqNext == f_seqcmp \/ f_modular_distance
FFlowNext == f_concatenate \/ f_transition

(***************************************************************************)
(* Properties of the functions                                             *)
(***************************************************************************)

\* C18: for all sequence numbers s and t, seqcmp(s, t) = -seqcmp(t, s), and
\* seqcmp(s, s) = 0.
C18_Antisymmetric ==
    f_out.fn = "seqcmp" =>
        /\ f_out.val[1] = 0 - f_out.val[2]
        /\ f_out.val[3] = 0

\* C19: for every s and every k with 0 <= k < 2^(U-1), with t = s + k taken
\* modulo 2^U, modular_distance(s, t) = k; and modular_distance(s, s) = 0.
C19_Distance ==
    (f_out.fn = "modular_distance" /\ U(f_t - f_s) < SEQ_HALF) =>
        /\ f_out.val[1] = U(f_t - f_s)
        /\ f_out.val[2] = 0

\* C20: flowstate_concatenate has FS_NULL as right identity, is associative,
\* and FS_ERROR is absorbing on either side.
C20_Monoid ==
    f_out.fn = "flowstate_concatenate" =>
        /\ f_out.val[1] = f_fs[1]
        /\ f_out.val[2] = f_out.val[3]
        /\ f_out.val[4] = "FS_ERROR"
        /\ f_out.val[5] = "FS_ERROR"

\* a delimiter, a packet and a delimiter concatenate to FS_DPD either way
C20_Witness ==
    /\ f_out.fn = "flowstate_concatenate"
    /\ f_fs = <<"FS_D", "FS_P", "FS_D">>
    /\ f_out.val[2] = "FS_DPD"
    /\ f_out.val[3] = "FS_DPD"


\* a transition table: the state after a delimiter and after a packet
Table(n, d, p, dp, pd, dpd, e) ==
    [fs \in FlowStates |->
        CASE fs = "FS_NULL" -> n
          [] fs = "FS_D"    -> d
          [] fs = "FS_P"    -> p
          [] fs = "FS_DP"   -> dp
          [] fs = "FS_PD"   -> pd
          [] fs = "FS_DPD"  -> dpd
          [] OTHER          -> e]

\* C23 as stated: on a delimiter NULL->D, D->D, P->PD, DP->DPD, PD->ERROR,
\* DPD->ERROR; on a packet NULL->P, D->DP, P->P, DP->ERROR, PD->P,
\* DPD->ERROR.
C23_StatedTable ==
    f_out.fn = "flowstate_transition" =>
        /\ f_out.val[1] = Table("FS_D", "FS_D", "FS_PD", "FS_DPD", "FS_ERROR",
                                "FS_ERROR", "FS_ERROR")[f_fs[1]]
        /\ f_out.val[2] = Table("FS_P", "FS_DP", "FS_P", "FS_ERROR", "FS_P",
                                "FS_ERROR", "FS_ERROR")[f_fs[1]]

\* C23, amended: on a delimiter NULL->D, D->D, P->PD, DP->DPD, PD->PD,
\* DPD->DPD, ERROR->ERROR; on a packet NULL->P, D->DP, P->P, DP->DP,
\* PD->ERROR, DPD->ERROR, ERROR->ERROR.
C23_TransitionTable ==
    f_out.fn = "flowstate_transition" =>
        /\ f_out.val[1] = Table("FS_D", "FS_D", "FS_PD", "FS_DPD", "FS_PD",
                                "FS_DPD", "FS_ERROR")[f_fs[1]]
        /\ f_out.val[2] = Table("FS_P", "FS_DP", "FS_P", "FS_DP", "FS_ERROR",
                                "FS_ERROR", "FS_ERROR")[f_fs[1]]

\* the two functions were applied to FS_PD
C23_Witness ==
    /\ f_out.fn = "flowstate_transition"
    /\ f_fs[1] = "FS_PD"
    /\ f_out.val = <<"FS_PD", "FS_ERROR">>

(***************************************************************************)
(*                                                                         *)
(*  PART D  --  life cycle: pd3_estimator_init and pd3_estimator_destroy   *)
(*                                                                         *)
(***************************************************************************)

\* ---- bounds of the life cycle model
MaxInit       == 3     \* calls of pd3_estimator_init in a run
MaxLifeEpochs == 3     \* epoch maps the aggregator creates in a session

\* pd3_estimator_options and the callbacks given to pd3_estimator_init
Options(interval, sch, batches, loss, cb) ==
    [aggregation_interval |-> interval, reporter_schedule |-> sch,
     reporter_min_batches |-> batches, measure_loss |-> loss,
     measure_reorder_extent |-> TRUE, measure_reorder_density |-> TRUE,
     cbs |-> cb]

\* schedule strings: "c,1" and "c,2,1;c,1,0" are well formed; "c,1;x" has
\* an entry without interval, "c,abc" an interval that is no number
SchA    == <<Entry({"c"}, <<Num(1)>>)>>
SchB    == <<Entry({"c"}, <<Num(2), Num(1)>>), Entry({"c"}, <<Num(1), Num(0)>>)>>
SchTail == <<Entry({"c"}, <<Num(1)>>), Entry({"x"}, <<>>)>>
SchWord == <<Entry({"c"}, <<Word>>)>>

OptA == Options(1, SchA, 1, TRUE, TRUE)
OptB == Options(2, SchB, 2, FALSE, FALSE)

\* the options an application passes in a run
InitOptions ==
    { OptA, OptB,
      Options(-1, SchA, 1, TRUE, TRUE),
      Options(1, SchTail, 1, TRUE, TRUE),
      Options(1, SchWord, 1, TRUE, TRUE) }

\* do the options pass the checks of pd3_estimator_init and set_schedule
ValidOptions(opt) ==
    /\ opt.aggregation_interval >= 0
    /\ set_schedule(opt.reporter_schedule, 0).ret = 0

\* the statics of pd3_estimator.c that hold the configuration
Conf(interval, sch, loss, extent, density, cb) ==
    [aggregator_interval |-> interval, schedule |-> sch,
     loss_enabled |-> loss, reorder_extent_enabled |-> extent,
     reorder_density_enabled |-> density, callbacks |-> cb]

ConfOf(opt) ==
    Conf(opt.aggregation_interval, opt.reporter_schedule, opt.measure_loss,
         opt.measure_reorder_extent, opt.measure_reorder_density, opt.cbs)

Ret(call, val, created, was_started, opt) ==
    [call |-> call, val |-> val, created |-> created,
     was_started |-> was_started, opt |-> opt]

\* the library as the loader leaves it, and as pd3_estimator_destroy is to
\* leave it: flags cleared, init_mutex free, no maps, no schedule
NotStartedState ==
    /\ pd3_estimator_started = 0
    /\ pd3_estimator_done = 0
    /\ init_mutex = NoThread
    /\ working_a = EmptyList
    /\ working_sh = EmptyList
    /\ working_r = EmptyList
    /\ free_hashmaps_a = EmptyList
    /\ free_hashmaps_sh = EmptyList
    /\ free_hashmaps_r = EmptyList
    /\ nitems = 0
    /\ d_items = <<>>

\* the state of a process that has not called pd3_estimator_init yet
DInitProcess ==
    /\ NotStartedState
    /\ shared_mutex = NoThread
    /\ reporter_sleeping = 0
    /\ rwait = FALSE
    /\ periods_to_wait = 0
    /\ apc = "nothread"
    /\ rpc = "nothread"
    /\ dpc = "idle"
    /\ nepoch = 0
    /\ processed = <<>>
    /\ d_conf = Conf(0, <<>>, TRUE, TRUE, TRUE, FALSE)
    /\ d_ret = Ret("none", 0, 0, FALSE, OptA)
    /\ d_calls = [init |-> 0, sessions |-> 0]

\* the life cycle variables once pd3_estimator_init(opt) has succeeded
DStartedWith(opt) ==
    /\ pd3_estimator_started = 1
    /\ init_mutex = NoThread
    /\ nitems = Len(set_schedule(opt.reporter_schedule, 0).items)
    /\ d_items = set_schedule(opt.reporter_schedule, 0).items
    /\ d_conf = ConfOf(opt)
    /\ d_ret = Ret("init", 0, 2, FALSE, opt)
    /\ d_calls = [init |-> 1, sessions |-> 1]

DIdle == DStartedWith(OptA)

\* the started library with the packets' estimators as the options switch
\* them, before the first packet
DFInitWith(opt) ==
    /\ DStartedWith(opt)
    /\ PInitWith(opt.reporter_min_batches)
    /\ RInitWith(opt.measure_reorder_extent, opt.measure_reorder_density,
                 "any")

\* ---- pd3_estimator_init ---------------------------------------------------

\* a negative aggregation interval: -1 before init_mutex is taken
d_init_invalid(opt) ==
    /\ dpc = "idle"
    /\ d_calls.init < MaxInit
    /\ opt.aggregation_interval < 0
    /\ d_calls' = [d_calls EXCEPT !.init = @ + 1]
    /\ d_ret' = Ret("init", -1, 0, pd3_estimator_started = 1, opt)
    /\ UNCHANGED <<pd3_estimator_started, init_mutex, nitems, d_items, d_conf,
                   pvars, notD>>

\* a repeated init that stores the callbacks before it looks at the flag
d_init_started_stores(opt) ==
    /\ dpc = "idle"
    /\ d_calls.init < MaxInit
    /\ opt.aggregation_interval >= 0
    /\ init_mutex = NoThread
    /\ pd3_estimator_started = 1
    /\ d_conf' = [d_conf EXCEPT !.callbacks = opt.cbs]
    /\ d_calls' = [d_calls EXCEPT !.init = @ + 1]
    /\ d_ret' = Ret("init", 0, 0, TRUE, opt)
    /\ UNCHANGED <<pd3_estimator_started, init_mutex, nitems, d_items,
                   pvars, notD>>

\* the library is started: unlock and return 0
d_init_started(opt) ==
    /\ dpc = "idle"
    /\ d_calls.init < MaxInit
    /\ opt.aggregation_interval >= 0
    /\ init_mutex = NoThread
    /\ pd3_estimator_started = 1
    /\ d_calls' = [d_calls EXCEPT !.init = @ + 1]
    /\ d_ret' = Ret("init", 0, 0, TRUE, opt)
    /\ UNCHANGED <<pd3_estimator_started, init_mutex, nitems, d_items, d_conf,
                   pvars, notD>>

\* the library is not started: the callbacks, the interval, the free list of
\* the aggregator, periods_to_wait and the schedule string are stored, then
\* set_schedule parses.  When it fails init returns -1 with init_mutex still
\* locked; otherwise the switches are stored, both threads are created and
\* the flag is set.
d_init_fresh(opt) ==
    /\ dpc = "idle"
    /\ d_calls.init < MaxInit
    /\ opt.aggregation_interval >= 0
    /\ init_mutex = NoThread
    /\ pd3_estimator_started = 0
    /\ LET r  == set_schedule(opt.reporter_schedule, 0)
           ok == r.ret = 0
       IN /\ free_hashmaps_a' = EmptyList
          /\ periods_to_wait' = opt.reporter_min_batches
          /\ reporter_sleeping' = 0
          /\ nitems' = nitems + Len(r.items)
          /\ d_items' = r.items
          /\ d_conf' = IF ok THEN ConfOf(opt)
                       ELSE [d_conf EXCEPT
                               !.callbacks = opt.cbs,
                               !.aggregator_interval = opt.aggregation_interval,
                               !.schedule = opt.reporter_schedule]
          /\ init_mutex' = IF ok THEN NoThread ELSE "app"
          /\ pd3_estimator_started' = IF ok THEN 1 ELSE 0
          /\ apc' = IF ok THEN "start" ELSE apc
          /\ rpc' = IF ok THEN "top" ELSE rpc
          /\ nepoch' = IF ok THEN 0 ELSE nepoch
          /\ processed' = IF ok THEN <<>> ELSE processed
          /\ d_ret' = Ret("init", r.ret, IF ok THEN 2 ELSE 0, FALSE, opt)
          /\ d_calls' = [init |-> d_calls.init + 1,
                         sessions |-> d_calls.sessions + (IF ok THEN 1 ELSE 0)]
    /\ UNCHANGED <<working_a, working_sh, working_r, free_hashmaps_sh,
                   free_hashmaps_r, shared_mutex, rwait, pd3_estimator_done,
                   dpc, notD>>

\* ---- pd3_estimator_destroy ------------------------------------------------

\* the library is not started: unlock and return 0
d_destroy_idle ==
    /\ dpc = "idle"
    /\ init_mutex = NoThread
    /\ pd3_estimator_started = 0
    /\ d_ret.call # "destroy"
    /\ d_ret' = Ret("destroy", 0, 0, FALSE, d_ret.opt)
    /\ UNCHANGED <<pd3_estimator_started, init_mutex, nitems, d_items, d_conf,
                   d_calls, pvars, notD>>

\* the library is started: init_mutex is released and the threads are told
d_destroy ==
    /\ init_mutex = NoThread
    /\ pd3_estimator_started = 1
    /\ pd3_estimator_destroy

\* a clean-up that leaves pd3_estimator_done set
destroy_cleanup_keep_done ==
    /\ dpc = "joined"
    /\ working_a' = EmptyList
    /\ working_sh' = EmptyList
    /\ working_r' = EmptyList
    /\ free_hashmaps_a' = EmptyList
    /\ free_hashmaps_sh' = EmptyList
    /\ free_hashmaps_r' = EmptyList
    /\ nitems' = 0
    /\ d_items' = <<>>
    /\ pd3_estimator_started' = 0
    /\ dpc' = "idle"
    /\ d_ret' = Ret("destroy", 0, 0, TRUE, d_ret.opt)
    /\ UNCHANGED <<shared_mutex, reporter_sleeping, rwait, periods_to_wait,
                   pd3_estimator_done, apc, rpc, nepoch, processed,
                   init_mutex, d_conf, d_calls, notD>>

\* after both joins: every list is destroyed and zeroed, the mutex and the
\* condition are destroyed, destroy_schedule, both flags are cleared
destroy_cleanup ==
    /\ dpc = "joined"
    /\ working_a' = EmptyList
    /\ working_sh' = EmptyList
    /\ working_r' = EmptyList
    /\ free_hashmaps_a' = EmptyList
    /\ free_hashmaps_sh' = EmptyList
    /\ free_hashmaps_r' = EmptyList
    /\ nitems' = 0
    /\ d_items' = <<>>
    /\ pd3_estimator_started' = 0
    /\ pd3_estimator_done' = 0
    /\ dpc' = "idle"
    /\ d_ret' = Ret("destroy", 0, 0, TRUE, d_ret.opt)
    /\ UNCHANGED <<shared_mutex, reporter_sleeping, rwait, periods_to_wait,
                   apc, rpc, nepoch, processed, init_mutex, d_conf, d_calls,
                   notD>>

\* the aggregator's interval ends, for the epochs of a session of this model
d_period_transition_call ==
    /\ nepoch < MaxLifeEpochs
    /\ period_transition_call

DNext ==
    \/ \E opt \in InitOptions : d_init_invalid(opt)
    \/ \E opt \in InitOptions : d_init_started(opt)
    \/ \E opt \in InitOptions : d_init_fresh(opt)
    \/ d_destroy_idle
    \/ d_destroy
    \/ destroy_join_aggregator
    \/ destroy_signal
    \/ destroy_join_reporter
    \/ destroy_cleanup
    \/ aggregator_start
    \/ aggregator_exit
    \/ d_period_transition_call
    \/ period_transition_lock
    \/ period_transition
    \/ period_transition_add
    \/ reporter_top
    \/ reporter_lock
    \/ reporter_wait_check
    \/ reporter_wake
    \/ data_exchange_reporter
    \/ reporter_process
    \/ reporter_process_done

(***************************************************************************)
(* Shutdown with packets in the maps: the threads of part P together with  *)
(* the reorder estimator of part R for the one stream that sends           *)
(***************************************************************************)

\* sequence numbers the stream sends in these runs: the two ends of the
\* sequence space
DFSeqnos == {0, SEQ_MAX}

\* handle_packet_arrival of the aggregator loop: the packet is counted in
\* the latest map and reorderdata_arrival files its sequence number
df_handle_packet_arrival(seqno) ==
    /\ Alive
    /\ apc = "loop"
    /\ pd3_estimator_done = 0
    /\ Len(r_hist) < MaxRArr
    /\ LET n  == working_a.count
           hm == working_a.maps[n] IN
       /\ hm.npkt < MaxPkt
       /\ working_a' = [working_a EXCEPT
                          !.maps[n] = HashMap(hm.epoch, hm.npkt + 1)]
    /\ r_cur' = reorderdata_arrival(r_cur, seqno)
    /\ r_hist' = Append(r_hist, seqno)
    /\ UNCHANGED <<working_sh, working_r, free_hashmaps_a, free_hashmaps_sh,
                   free_hashmaps_r, shared_mutex, reporter_sleeping, rwait,
                   pd3_estimator_done, periods_to_wait, apc, rpc, dpc,
                   nepoch, processed>>
    /\ UNCHANGED <<reorder_extent_enabled, reorder_density_enabled, r_script,
                   r_pend, rstate, r_dr, r_acc, r_pc, r_list, r_i,
                   r_ndone, r_seen, r_repeat, r_snap, r_boot, notPR>>

\* period_transition: the earliest map of working_a, with the ranges of the
\* stream when it holds packets, goes to the shared area
df_period_transition ==
    /\ Alive
    /\ apc = "pt_cs"
    /\ shared_mutex = "agg"
    /\ LET w == moveone_hashmap(working_sh, working_a)
           f == moveall_hashmap(free_hashmaps_a, free_hashmaps_sh) IN
       /\ working_sh' = w[1]
       /\ working_a' = w[2]
       /\ free_hashmaps_a' = f[1]
       /\ free_hashmaps_sh' = f[2]
    /\ rwait' = IF reporter_sleeping = 1 THEN FALSE ELSE rwait
    /\ shared_mutex' = NoThread
    /\ apc' = "pt_add"
    /\ r_pend' = IF r_cur # <<>> THEN Append(r_pend, r_cur) ELSE r_pend
    /\ r_cur' = <<>>
    /\ UNCHANGED <<working_r, free_hashmaps_r, reporter_sleeping,
                   pd3_estimator_done, periods_to_wait, rpc, dpc, nepoch,
                   processed>>
    /\ UNCHANGED <<reorder_extent_enabled, reorder_density_enabled, r_script,
                   rstate, r_dr, r_acc, r_pc, r_list, r_i, r_hist,
                   r_ndone, r_seen, r_repeat, r_snap, r_boot, notPR>>

\* reporter_thread: the earliest map of working_r holds no stream
df_reporter_process_empty ==
    /\ working_r.count > 0
    /\ Head(working_r.maps).npkt = 0
    /\ reporter_process

\* reporter_thread: the earliest map of working_r holds the stream and
\* reorderdata_a2r is called on its ranges
df_reporter_a2r_call ==
    /\ rpc = "process"
    /\ working_r.count >= periods_to_wait
    /\ working_r.count > 0
    /\ Head(working_r.maps).npkt > 0
    /\ r_pc = "idle"
    /\ r_pend # <<>>
    /\ rpc' = "a2r"
    /\ r_dr' = ZeroRDR
    /\ r_list' = Head(r_pend)
    /\ r_pc' = "range"
    /\ r_repeat' = FALSE
    /\ r_snap' = ZeroRDR.extentToCount
    /\ UNCHANGED <<working_a, working_sh, working_r, free_hashmaps_a,
                   free_hashmaps_sh, free_hashmaps_r, shared_mutex,
                   reporter_sleeping, rwait, pd3_estimator_done,
                   periods_to_wait, apc, dpc, nepoch, processed>>
    /\ UNCHANGED <<reorder_extent_enabled, reorder_density_enabled, r_script,
                   r_cur, r_pend, rstate, r_acc, r_i, r_hist,
                   r_ndone, r_seen, r_boot, notPR>>

\* reporter_thread: reorderdata_a2r has returned; the map is accumulated and
\* recycled with moveone_hashmap(&free_hashmaps_r, &working_r)
df_reporter_a2r_return ==
    /\ rpc = "a2r"
    /\ r_pc = "range"
    /\ r_list = <<>>
    /\ LET p == IF reorder_extent_enabled
                THEN reorderdata_prune_missing_packets(r_dr, rstate)
                ELSE [dr |-> r_dr, rstate |-> rstate] IN
        /\ r_dr' = p.dr
        /\ rstate' = p.rstate
        /\ r_acc' = reorderdata_accumulate_time(r_acc, p.dr)
    /\ r_ndone' = r_ndone + RangesSize(Head(r_pend))
    /\ r_pend' = Tail(r_pend)
    /\ r_pc' = "idle"
    /\ rpc' = "process"
    /\ processed' = Append(processed, Head(working_r.maps).epoch)
    /\ LET m == moveone_hashmap(free_hashmaps_r, working_r) IN
       /\ free_hashmaps_r' = m[1]
       /\ working_r' = m[2]
    /\ UNCHANGED <<working_a, working_sh, free_hashmaps_a, free_hashmaps_sh,
                   shared_mutex, reporter_sleeping, rwait, pd3_estimator_done,
                   periods_to_wait, apc, dpc, nepoch>>
    /\ UNCHANGED <<reorder_extent_enabled, reorder_density_enabled, r_script,
                   r_cur, r_list, r_i, r_hist, r_seen, r_repeat,
                   r_snap, r_boot, notPR>>

\* the steps of the aggregator thread that wait for no packet and no timer
DFAggregator ==
    \/ aggregator_start
    \/ aggregator_exit
    \/ period_transition_lock
    \/ df_period_transition
    \/ period_transition_add

\* the steps of the reporter thread; the return of pthread_cond_wait counts
\* when the condition has been signalled
DFReporter ==
    \/ reporter_top
    \/ reporter_lock
    \/ reporter_wait_check
    \/ reporter_wake /\ ~rwait
    \/ data_exchange_reporter
    \/ df_reporter_process_empty
    \/ reporter_process_done
    \/ df_reporter_a2r_call
    \/ r_a2r_range
    \/ r_a2r_density
    \/ r_a2r_extent
    \/ r_a2r_case2
    \/ df_reporter_a2r_return

\* the steps of pd3_estimator_destroy once it is called
DFDestroy ==
    \/ destroy_join_aggregator
    \/ destroy_signal
    \/ destroy_join_reporter
    \/ destroy_cleanup

DFNext ==
    \/ d_destroy
    \/ destroy_join_aggregator
    \/ destroy_signal
    \/ destroy_join_reporter
    \/ destroy_cleanup
    \/ aggregator_start
    \/ aggregator_exit
    \/ \E seqno \in DFSeqnos : df_handle_packet_arrival(seqno)
    \/ d_period_transition_call
    \/ period_transition_lock
    \/ df_period_transition
    \/ period_transition_add
    \/ reporter_top
    \/ reporter_lock
    \/ reporter_wait_check
    \/ reporter_wake
    \/ data_exchange_reporter
    \/ df_reporter_process_empty
    \/ reporter_process_done
    \/ df_reporter_a2r_call
    \/ r_a2r_range
    \/ r_a2r_density
    \/ r_a2r_extent
    \/ r_a2r_case2
    \/ df_reporter_a2r_return

\* every thread that can take a step does take one: the scheduler starves
\* no thread, and shared_mutex is held for finitely many steps only
DFFair ==
    /\ WF_vars(DFAggregator)
    /\ WF_vars(DFReporter)
    /\ WF_vars(DFDestroy)

\* C13: once pd3_estimator_destroy is called on a started library, the
\* aggregator thread and the reporter thread both exit and destroy returns,
\* whatever the threads were doing when it was called.
C13_ShutdownCompletes ==
    (dpc = "join_agg") ~>
        (dpc = "idle" /\ apc = "exited" /\ rpc = "exited"
         /\ d_ret.call = "destroy")

\* C34: every epoch map the aggregator moves into the shared list is
\* eventually taken by the reporter while the library is running: under
\* every interleaving of period_transition with the reporter's wait no
\* wake-up is lost and the reporter is never left sleeping with a non-empty
\* shared list.
C34_HandoffTaken ==
    (pending_hashmaps > 0 /\ pd3_estimator_done = 0) ~>
        (pending_hashmaps = 0 \/ pd3_estimator_done = 1)

(***************************************************************************)
(* Claims about the life cycle                                             *)
(***************************************************************************)

\* a step that is a call of pd3_estimator_init
InitCall == d_calls'.init = d_calls.init + 1

\* the step leaves the threads, the lists, the schedule and the stored
\* configuration alone
NothingChanges ==
    UNCHANGED <<pvars, pd3_estimator_started, init_mutex, nitems, d_items,
                d_conf>>

\* pd3_estimator_init has just returned from a call that found the library
\* not started and was given a negative interval or a malformed schedule
C15_Rejected ==
    /\ d_ret.call = "init"
    /\ ~d_ret.was_started
    /\ ~ValidOptions(d_ret.opt)

\* C15: pd3_estimator_init called with a negative aggregation interval or
\* with a malformed schedule string returns -1, starts no thread and leaves
\* the library in the not-started state.
C15_InitRejects ==
    C15_Rejected =>
        /\ d_ret.val = -1
        /\ d_ret.created = 0
        /\ NotStartedState

\* C38: every return path of pd3_estimator_init releases init_mutex, so a
\* later call of init or destroy is never blocked for ever by an earlier
\* call of init that has returned, whether it returned 0 or -1.
C38_InitReleasesMutex ==
    d_ret.call = "init" => init_mutex = NoThread

\* C16 as stated: every call of pd3_estimator_init on a started library
\* returns 0, creates no thread and changes nothing.
C16_RepeatedInitReturnsZero ==
    [][(pd3_estimator_started = 1 /\ InitCall) =>
          /\ d_ret'.val = 0
          /\ d_ret'.created = 0
          /\ NothingChanges]_vars

\* C16, amended: a call of pd3_estimator_init on a started library creates
\* no thread and changes neither the stored interval, schedule, switches and
\* callbacks nor anything else; it returns 0 when the aggregation interval
\* of its options is not negative and -1 when it is.
C16_RepeatedInitNoOp ==
    [][(pd3_estimator_started = 1 /\ InitCall) =>
          /\ d_ret'.val = (IF d_ret'.opt.aggregation_interval < 0
                           THEN -1 ELSE 0)
          /\ d_ret'.created = 0
          /\ NothingChanges]_vars

\* a library started with OptA has answered 0 to an init with OptB and
\* still runs with the configuration of OptA
C16_Witness ==
    /\ pd3_estimator_started = 1
    /\ d_ret = Ret("init", 0, 0, TRUE, OptB)
    /\ d_conf = ConfOf(OptA)
    /\ periods_to_wait = OptA.reporter_min_batches

\* C14: after pd3_estimator_destroy returns on a started library the library
\* is in the not-started state (both flags cleared, epoch lists and free
\* lists empty, no schedule slot), and a following pd3_estimator_init with
\* valid options returns 0 and leaves two fresh threads, the lists, the
\* schedule and the configuration as a first init with these options does.
C14_ReInit ==
    /\ []((d_ret.call = "destroy" /\ d_ret.was_started) => NotStartedState)
    /\ [][(/\ pd3_estimator_started = 0
           /\ d_calls.sessions >= 1
           /\ InitCall
           /\ ValidOptions(d_ret'.opt)) =>
             /\ d_ret'.val = 0
             /\ d_ret'.created = 2
             /\ \E w \in 0..MaxW :
                    /\ w = d_ret'.opt.reporter_min_batches
                    /\ PInitWith(w)'
             /\ pd3_estimator_started' = 1
             /\ init_mutex' = NoThread
             /\ d_conf' = ConfOf(d_ret'.opt)
             /\ d_items' = set_schedule(d_ret'.opt.reporter_schedule, 0).items
             /\ nitems' = Len(d_items')]_vars

\* the second session of a process: its reporter has processed a map
C14_Witness ==
    /\ d_calls.sessions = 2
    /\ pd3_estimator_started = 1
    /\ processed # <<>>

(***************************************************************************)
(*                                                                         *)
(*  PART A  --  the deadline of the aggregator loop                        *)
(*                                                                         *)
(***************************************************************************)

\* ---- bounds of the clock model.  Time is counted in ticks; a second is
\* TicksPerSecond ticks (10^9 nanoseconds in the code)
TicksPerSecond == 4
MaxClockSec    == 3     \* the clock stops at this many seconds
MaxIntervalSec == 1     \* whole seconds of the configured interval
MaxARecords    == 2     \* records flushed to the shared queue
MaxSlots       == 2     \* hash maps the rotation recycles

ONE_SECOND_TICKS == TicksPerSecond

\* struct timespec
timespec(sec, nsec) == [tv_sec |-> sec, tv_nsec |-> nsec]

\* static inline int timeCmp(lhs, rhs)
timeCmp(lhs, rhs) ==
    IF lhs.tv_sec > rhs.tv_sec THEN 1
    ELSE IF lhs.tv_sec < rhs.tv_sec THEN -1
    ELSE IF lhs.tv_nsec > rhs.tv_nsec THEN 1
    ELSE IF lhs.tv_nsec < rhs.tv_nsec THEN -1
    ELSE 0

\* static void setNextInterval(tv, incr): tv_nsec of the increment is added
\* and carried; tv_sec of the increment is not used
setNextInterval(tv, incr) ==
    LET nsec == tv.tv_nsec + incr.tv_nsec IN
    IF nsec >= ONE_SECOND_TICKS
    THEN timespec(tv.tv_sec + 1, nsec - ONE_SECOND_TICKS)
    ELSE timespec(tv.tv_sec, nsec)

\* the exact sum of a time and an interval
TimePlus(tv, incr) ==
    LET ticks == (tv.tv_sec + incr.tv_sec) * ONE_SECOND_TICKS
                 + tv.tv_nsec + incr.tv_nsec
    IN timespec(ticks \div ONE_SECOND_TICKS, ticks % ONE_SECOND_TICKS)

\* the intervals pd3_estimator_init accepts: floor(agg_int) whole seconds
\* and the rest below one second
AIntervals ==
    {timespec(sec, nsec) : sec \in 0..MaxIntervalSec,
                           nsec \in 0..(ONE_SECOND_TICKS - 1)}

\* aggregator_thread before its loop: clock_gettime(clock, &ref) and
\* setNextInterval(&ref, &aggregator_interval)
AInitWith(interval) ==
    /\ a_now = timespec(0, 0)
    /\ a_interval = interval
    /\ a_ref = setNextInterval(timespec(0, 0), interval)
    /\ a_prev = timespec(0, 0)
    /\ a_rotated = FALSE
    /\ a_slot = 0
    /\ a_pushed = 0
    /\ a_taken = 0

AInit == \E interval \in AIntervals : AInitWith(interval)
AIdle == AInitWith(timespec(0, 1))

\* the clock moves on by one tick
a_tick ==
    /\ a_now.tv_sec < MaxClockSec
    /\ a_now' = TimePlus(a_now, timespec(0, 1))
    /\ UNCHANGED <<a_ref, a_interval, a_prev, a_rotated, a_slot, a_pushed,
                   a_taken, notA>>

\* a producer flushes a record to the shared queue
a_flush ==
    /\ a_pushed < MaxARecords
    /\ a_pushed' = a_pushed + 1
    /\ UNCHANGED <<a_now, a_ref, a_interval, a_prev, a_rotated, a_slot,
                   a_taken, notA>>

\* one trip of the loop that rotates: now is past the deadline, or the queue
\* stays empty until the deadline and fistq_timeddequeue_any returns NULL;
\* period_transition, then setNextInterval(&ref, &aggregator_interval)
a_rotate ==
    /\ \/ timeCmp(a_now, a_ref) > 0
       \/ a_taken = a_pushed /\ timeCmp(a_now, a_ref) >= 0
    /\ a_prev' = a_ref
    /\ a_ref' = setNextInterval(a_ref, a_interval)
    /\ a_rotated' = TRUE
    /\ a_slot' = (a_slot + 1) % MaxSlots
    /\ UNCHANGED <<a_now, a_interval, a_pushed, a_taken, notA>>

\* one trip of the loop that dequeues a record and files it into the
\* working map: now is not past the deadline and the queue holds a record
a_dequeue ==
    /\ timeCmp(a_now, a_ref) <= 0
    /\ a_taken < a_pushed
    /\ a_taken' = a_taken + 1
    /\ UNCHANGED <<a_now, a_ref, a_interval, a_prev, a_rotated, a_slot,
                   a_pushed, notA>>

ANext ==
    \/ a_tick
    \/ a_flush
    \/ a_rotate
    \/ a_dequeue

\* the aggregator thread is scheduled and the clock keeps running
AFair ==
    /\ WF_vars(a_rotate \/ a_dequeue)
    /\ WF_vars(a_tick)

\* C24: after every epoch rotation the aggregator's next deadline equals the
\* previous deadline plus exactly the configured aggregation interval, its
\* whole seconds and its fractional part, for every interval >= 0.
C24_DeadlineAdvances ==
    a_rotated => a_ref = TimePlus(a_prev, a_interval)

\* C25: for every configured aggregation interval greater than zero, every
\* record flushed to the shared queue is eventually dequeued by the
\* aggregator: it never keeps rotating epochs without consuming the queue.
C25_RecordsConsumed ==
    \A n \in 1..MaxARecords :
        (a_interval # timespec(0, 0) /\ a_pushed >= n) ~> (a_taken >= n)

(***************************************************************************)
(*                                                                         *)
(*  PART G  --  the seqnoRange objects, their lists and the free-lists     *)
(*                                                                         *)
(***************************************************************************)

\* ---- bounds of the storage model
MaxRanges == 3     \* seqnoRange objects malloc hands out
MaxGMaps  == 3     \* epoch maps alive at a time

NULL     == 0
RangeIds == 1..MaxRanges
Areas    == {"a", "sh", "r"}          \* aggregator, shared, reporter
Kinds    == {"loss", "reorder"}

\* struct seqnoRangeList
RangeList(h, t) == [head |-> h, tail |-> t]
NoRanges        == RangeList(NULL, NULL)

\* the stream's hashMapItem of one epoch map, and the area the map is in
GItem(l, r, area) == [loss |-> l, reorder |-> r, area |-> area]

\* move_seqnorangelist that leaves 'from' as it was
move_seqnorangelist_keep(to, from, next) ==
    IF from.head = NULL THEN [to |-> to, from |-> from, next |-> next]
    ELSE IF to.head = NULL
    THEN [to |-> RangeList(from.head, from.tail), from |-> from,
          next |-> next]
    ELSE [to |-> RangeList(to.head, from.tail), from |-> from,
          next |-> [next EXCEPT ![to.tail] = from.head]]

\* void move_seqnorangelist(to, from): [to, from, next] afterwards
move_seqnorangelist(to, from, next) ==
    IF from.head = NULL THEN [to |-> to, from |-> from, next |-> next]
    ELSE IF to.head = NULL
    THEN [to |-> RangeList(from.head, from.tail), from |-> NoRanges,
          next |-> next]
    ELSE [to |-> RangeList(to.head, from.tail), from |-> NoRanges,
          next |-> [next EXCEPT ![to.tail] = from.head]]

\* the free-lists of one kind moved from one area to another
g_move_free(free, next, kind, to, from) ==
    LET m == move_seqnorangelist(free[to][kind], free[from][kind], next)
    IN [free |-> [free EXCEPT ![to][kind] = m.to, ![from][kind] = m.from],
        next |-> m.next]

GInit ==
    /\ g_live = {}
    /\ g_next = [r \in RangeIds |-> NULL]
    /\ g_maps = <<GItem(NoRanges, NoRanges, "a")>>
    /\ g_free = [a \in Areas |-> [k \in Kinds |-> NoRanges]]
    /\ g_rpc = "top"

GIdle == GInit

\* newrange of lossdata_arrival and reorderdata_arrival: the head of the
\* free-list when there is one, else a fresh object from malloc
g_newrange(kind) ==
    IF g_free["a"][kind].head # NULL THEN {g_free["a"][kind].head}
    ELSE RangeIds \ g_live

\* the free-list after newrange was taken from it
g_taken(fl, newrange) ==
    IF fl.head = newrange
    THEN RangeList(g_next[newrange],
                   IF newrange = fl.tail THEN NULL ELSE fl.tail)
    ELSE fl

\* lossdata_arrival on the item of the latest map.  When the number follows
\* the head range that range grows and no link changes; otherwise newrange
\* is cleared and becomes the head
g_lossdata_arrival ==
    LET e   == Len(g_maps)
        lda == g_maps[e].loss
    IN
    \E grow \in BOOLEAN : \E newrange \in g_newrange("loss") :
       IF grow /\ lda.head # NULL
       THEN UNCHANGED <<g_live, g_next, g_maps, g_free, g_rpc, notG>>
       ELSE
       /\ g_free' = [g_free EXCEPT !["a"]["loss"] = g_taken(@, newrange)]
       /\ g_live' = g_live \cup {newrange}
       /\ g_next' = [g_next EXCEPT ![newrange] = lda.head]
       /\ g_maps' = [g_maps EXCEPT ![e].loss =
                        RangeList(newrange,
                                  IF lda.tail = NULL THEN newrange
                                  ELSE lda.tail)]
       /\ UNCHANGED <<g_rpc, notG>>

\* reorderdata_arrival on the item of the latest map: newrange becomes the
\* tail
g_reorderdata_arrival ==
    LET e  == Len(g_maps)
        rd == g_maps[e].reorder
    IN
    \E grow \in BOOLEAN : \E newrange \in g_newrange("reorder") :
       IF grow /\ rd.tail # NULL
       THEN UNCHANGED <<g_live, g_next, g_maps, g_free, g_rpc, notG>>
       ELSE
       /\ g_free' = [g_free EXCEPT !["a"]["reorder"] = g_taken(@, newrange)]
       /\ g_live' = g_live \cup {newrange}
       /\ g_next' = IF rd.tail = NULL
                    THEN [g_next EXCEPT ![newrange] = NULL]
                    ELSE [g_next EXCEPT ![newrange] = NULL,
                                        ![rd.tail] = newrange]
       /\ g_maps' = [g_maps EXCEPT ![e].reorder =
                        RangeList(IF rd.tail = NULL THEN newrange
                                  ELSE rd.head,
                                  newrange)]
       /\ UNCHANGED <<g_rpc, notG>>

\* period_transition: under the mutex the working map goes to the shared
\* area and the shared free-lists go to the aggregator; then add_hashmap
g_period_transition ==
    /\ Len(g_maps) < MaxGMaps
    /\ LET m1 == g_move_free(g_free, g_next, "loss", "a", "sh")
           m2 == g_move_free(m1.free, m1.next, "reorder", "a", "sh")
       IN /\ g_free' = m2.free
          /\ g_next' = m2.next
    /\ g_maps' = Append([g_maps EXCEPT ![Len(g_maps)].area = "sh"],
                        GItem(NoRanges, NoRanges, "a"))
    /\ UNCHANGED <<g_live, g_rpc, notG>>

\* data_exchange_reporter_unsafe, under the mutex: the shared maps go to the
\* reporter and the reporter's free-lists go to the shared area
g_data_exchange_reporter ==
    /\ g_rpc = "top"
    /\ \E e \in DOMAIN g_maps : g_maps[e].area = "sh"
    /\ LET m1 == g_move_free(g_free, g_next, "loss", "sh", "r")
           m2 == g_move_free(m1.free, m1.next, "reorder", "sh", "r")
       IN /\ g_free' = m2.free
          /\ g_next' = m2.next
    /\ g_maps' = [e \in DOMAIN g_maps |->
                     IF g_maps[e].area = "sh"
                     THEN [g_maps[e] EXCEPT !.area = "r"]
                     ELSE g_maps[e]]
    /\ UNCHANGED <<g_live, g_rpc, notG>>

\* reporter_thread, recycling the earliest map: the loss ranges of the item
\* go to free_lossranges_r
g_recycle_loss ==
    /\ g_rpc = "top"
    /\ g_maps[1].area = "r"
    /\ LET m == move_seqnorangelist(g_free["r"]["loss"], g_maps[1].loss,
                                    g_next)
       IN /\ g_free' = [g_free EXCEPT !["r"]["loss"] = m.to]
          /\ g_maps' = [g_maps EXCEPT ![1].loss = m.from]
          /\ g_next' = m.next
    /\ g_rpc' = "loss_moved"
    /\ UNCHANGED <<g_live, notG>>

\* then the reorder ranges go to free_reorderranges_r, and the map leaves
\* working_r (move_hmilist, moveone_hashmap)
g_recycle_reorder ==
    /\ g_rpc = "loss_moved"
    /\ LET m == move_seqnorangelist(g_free["r"]["reorder"],
                                    g_maps[1].reorder, g_next)
       IN /\ g_free' = [g_free EXCEPT !["r"]["reorder"] = m.to]
          /\ g_next' = m.next
    /\ g_maps' = Tail(g_maps)
    /\ g_rpc' = "top"
    /\ UNCHANGED <<g_live, notG>>

GNext ==
    \/ g_lossdata_arrival
    \/ g_reorderdata_arrival
    \/ g_period_transition
    \/ g_data_exchange_reporter
    \/ g_recycle_loss
    \/ g_recycle_reorder

\* the objects reached from r along 'next', in at most n steps
RECURSIVE Chain(_, _)
Chain(r, n) ==
    IF r = NULL \/ n = 0 THEN {} ELSE {r} \cup Chain(g_next[r], n - 1)

\* the lists of the program: the two lists of every live item and the six
\* free-lists, each with its head
GLists ==
    {<<"map", e, k, g_maps[e][k].head>> : e \in DOMAIN g_maps, k \in Kinds}
    \cup {<<"free", a, k, g_free[a][k].head>> : a \in Areas, k \in Kinds}

Owners(r) == {l \in GLists : r \in Chain(l[4], MaxRanges + 1)}

\* C27: at every instant and under every interleaving of aggregator and
\* reporter, each seqnoRange is reachable through the arrival chain from
\* exactly one list: one loss or reorder list of the stream in one epoch
\* map, or exactly one of the free-lists; a range on a free-list is never
\* also reachable from a live epoch.
C27_OneOwner ==
    \A r \in g_live : Cardinality(Owners(r)) = 1

\* a recycled range is in use again in the latest map while other ranges
\* wait on a free-list of the reporter and on one of the aggregator
C27_Witness ==
    /\ g_live = RangeIds
    /\ \E a \in Areas, k \in Kinds : g_free[a][k].head # NULL
    /\ \E e \in DOMAIN g_maps, k \in Kinds :
          /\ g_maps[e][k].head # NULL
          /\ g_next[g_maps[e][k].head] # NULL
    /\ g_rpc = "loss_moved"

(***************************************************************************)
(*                                                                         *)
(*  PART U  --  the loss counters of a flow, rolled up from its streams    *)
(*                                                                         *)
(***************************************************************************)

\* ---- bounds of the roll-up model
MaxUnits   == 3     \* stream units rolled up into the flow
MaxUnitCnt == 1     \* largest received and dropped count of a unit

\* the lossDataR of a stream item of a tracker: it never counts bad flows
Unit(fs, received, dropped) ==
    [ZeroLDR EXCEPT !.flowstate = fs, !.received = received,
                    !.dropped = dropped]

Units ==
    {Unit(fs, received, dropped) :
        fs \in {"FS_PD", "FS_ERROR"},
        received \in 0..MaxUnitCnt, dropped \in 0..MaxUnitCnt}

\* the flow item is made by hashmap_force: all zero
UInit ==
    /\ u_accum = ZeroLDR
    /\ u_hist = <<>>

UIdle == UInit

\* accumulate_flow for the next stream item of the tracker
u_accumulate_flow(unit) ==
    /\ Len(u_hist) < MaxUnits
    /\ u_accum' = lossdata_accumulate_flows(u_accum, unit)
    /\ u_hist' = Append(u_hist, unit)
    /\ UNCHANGED notU

UNext == \E unit \in Units : u_accumulate_flow(unit)

\* the units of a run that were in flow state ERROR, and the others
BadUnits  == SelectSeq(u_hist, LAMBDA u : flowstate_error(u.flowstate))
GoodUnits == SelectSeq(u_hist, LAMBDA u : ~flowstate_error(u.flowstate))

RECURSIVE SumField(_, _)
SumField(units, f) ==
    IF units = <<>> THEN 0 ELSE Head(units)[f] + SumField(Tail(units), f)

\* C32: after rolling up any sequence of stream units into a flow
\* accumulator with lossdata_accumulate_flows, bad_flows equals the number
\* of units whose flow state was ERROR, and the counters of those units are
\* not added to the flow's received and dropped totals.
C32_BadFlows ==
    /\ u_accum.badflows = Len(BadUnits)
    /\ u_accum.received = SumField(GoodUnits, "received")
    /\ u_accum.dropped = SumField(GoodUnits, "dropped")

(***************************************************************************)
(*                                                                         *)
(*  PART C  --  pd3_estimator_init and pd3_estimator_destroy called by     *)
(*              several application threads at once                        *)
(*                                                                         *)
(***************************************************************************)

\* ---- bounds of the model of overlapping calls
MaxCallers == 2     \* application threads that call init and destroy
MaxCalls   == 2     \* calls of one thread in a run

Callers == 1..MaxCallers

\* the name under which a calling thread holds init_mutex
Owner(t) == <<"app1", "app2", "app3", "app4">>[t]

\* the positions between the test of pd3_estimator_started and the write of
\* it: inside the start-up of init, inside the teardown of destroy
StartUp  == {"i_start", "i_flag"}
TearDown == {"d_done", "d_join", "d_clean"}

\* a return of a call, with pd3_estimator_started as the call leaves it
CRet(call, val, started) == [call |-> call, val |-> val, started |-> started]

CInit ==
    /\ c_pc = [t \in Callers |-> "idle"]
    /\ c_ret = [t \in Callers |-> CRet("none", 0, 0)]
    /\ c_calls = [t \in Callers |-> 0]
    /\ c_live = FALSE

CIdle == CInit

\* what the calls of this part leave alone
cRest ==
    <<working_a, working_sh, working_r, free_hashmaps_a, free_hashmaps_sh,
      free_hashmaps_r, shared_mutex, reporter_sleeping, rwait,
      periods_to_wait, apc, rpc, dpc, nepoch, processed, nitems, d_items,
      d_conf, d_ret, d_calls, notC>>

\* pd3_estimator_init is entered: a negative aggregation interval returns -1
\* before init_mutex is looked at
c_init_call(t) ==
    /\ c_pc[t] = "idle"
    /\ c_calls[t] < MaxCalls
    /\ c_calls' = [c_calls EXCEPT ![t] = @ + 1]
    /\ \E negative \in BOOLEAN :
          IF negative
          THEN /\ c_ret' = [c_ret EXCEPT ![t] = CRet("init", -1, pd3_estimator_started)]
               /\ UNCHANGED c_pc
          ELSE /\ c_pc' = [c_pc EXCEPT ![t] = "i_lock"]
               /\ UNCHANGED c_ret
    /\ UNCHANGED <<pd3_estimator_started, init_mutex, pd3_estimator_done,
                   c_live, cRest>>

\* pthread_mutex_lock(&init_mutex) and the test of pd3_estimator_started:
\* a started library is answered with unlock and return 0
c_init_lock(t) ==
    /\ c_pc[t] = "i_lock"
    /\ init_mutex = NoThread
    /\ IF pd3_estimator_started = 1
       THEN /\ c_ret' = [c_ret EXCEPT ![t] = CRet("init", 0, pd3_estimator_started)]
            /\ c_pc' = [c_pc EXCEPT ![t] = "idle"]
            /\ UNCHANGED init_mutex
       ELSE /\ init_mutex' = Owner(t)
            /\ c_pc' = [c_pc EXCEPT ![t] = "i_start"]
            /\ UNCHANGED c_ret
    /\ UNCHANGED <<pd3_estimator_started, pd3_estimator_done, c_calls,
                   c_live, cRest>>

\* the start-up under init_mutex: the statics are stored and set_schedule
\* parses; a rejected schedule returns -1 with init_mutex held, otherwise
\* both threads are created
c_init_start(t) ==
    /\ c_pc[t] = "i_start"
    /\ init_mutex = Owner(t)
    /\ \E ok \in BOOLEAN :
          IF ok
          THEN /\ c_live' = TRUE
               /\ c_pc' = [c_pc EXCEPT ![t] = "i_flag"]
               /\ UNCHANGED c_ret
          ELSE /\ c_ret' = [c_ret EXCEPT ![t] = CRet("init", -1, pd3_estimator_started)]
               /\ c_pc' = [c_pc EXCEPT ![t] = "idle"]
               /\ UNCHANGED c_live
    /\ UNCHANGED <<pd3_estimator_started, init_mutex, pd3_estimator_done,
                   c_calls, cRest>>

\* pd3_estimator_started = 1; pthread_mutex_unlock(&init_mutex); return 0
c_init_flag(t) ==
    /\ c_pc[t] = "i_flag"
    /\ init_mutex = Owner(t)
    /\ pd3_estimator_started' = 1
    /\ init_mutex' = NoThread
    /\ c_ret' = [c_ret EXCEPT ![t] = CRet("init", 0, 1)]
    /\ c_pc' = [c_pc EXCEPT ![t] = "idle"]
    /\ UNCHANGED <<pd3_estimator_done, c_calls, c_live, cRest>>

\* pd3_estimator_destroy is entered
c_destroy_call(t) ==
    /\ c_pc[t] = "idle"
    /\ c_calls[t] < MaxCalls
    /\ c_calls' = [c_calls EXCEPT ![t] = @ + 1]
    /\ c_pc' = [c_pc EXCEPT ![t] = "d_lock"]
    /\ UNCHANGED <<pd3_estimator_started, init_mutex, pd3_estimator_done,
                   c_ret, c_live, cRest>>

\* pthread_mutex_lock(&init_mutex), the test of pd3_estimator_started and
\* pthread_mutex_unlock(&init_mutex): a library that is not started is
\* answered with return 0, otherwise the call goes on without the mutex
c_destroy_lock(t) ==
    /\ c_pc[t] = "d_lock"
    /\ init_mutex = NoThread
    /\ IF pd3_estimator_started = 0
       THEN /\ c_ret' = [c_ret EXCEPT ![t] = CRet("destroy", 0, pd3_estimator_started)]
            /\ c_pc' = [c_pc EXCEPT ![t] = "idle"]
       ELSE /\ c_pc' = [c_pc EXCEPT ![t] = "d_done"]
            /\ UNCHANGED c_ret
    /\ UNCHANGED <<pd3_estimator_started, init_mutex, pd3_estimator_done,
                   c_calls, c_live, cRest>>

\* pd3_estimator_done = 1
c_destroy_done(t) ==
    /\ c_pc[t] = "d_done"
    /\ pd3_estimator_done' = 1
    /\ c_pc' = [c_pc EXCEPT ![t] = "d_join"]
    /\ UNCHANGED <<pd3_estimator_started, init_mutex, c_ret, c_calls, c_live,
                   cRest>>

\* pthread_join of aggregator_tid and of reporter_tid.  Joining a thread
\* that was joined before is undefined: the call may fail, and destroy
\* returns -1, or it may return 0
c_destroy_join(t) ==
    /\ c_pc[t] = "d_join"
    /\ \E fails \in BOOLEAN :
          IF c_live \/ ~fails
          THEN /\ c_pc' = [c_pc EXCEPT ![t] = "d_clean"]
               /\ UNCHANGED c_ret
          ELSE /\ c_ret' = [c_ret EXCEPT ![t] = CRet("destroy", -1, pd3_estimator_started)]
               /\ c_pc' = [c_pc EXCEPT ![t] = "idle"]
    /\ c_live' = FALSE
    /\ UNCHANGED <<pd3_estimator_started, init_mutex, pd3_estimator_done,
                   c_calls, cRest>>

\* the lists are freed and zeroed, shared_mutex and the schedule are
\* destroyed, then pd3_estimator_started = 0; pd3_estimator_done = 0;
\* return 0
c_destroy_clean(t) ==
    /\ c_pc[t] = "d_clean"
    /\ pd3_estimator_started' = 0
    /\ pd3_estimator_done' = 0
    /\ c_ret' = [c_ret EXCEPT ![t] = CRet("destroy", 0, 0)]
    /\ c_pc' = [c_pc EXCEPT ![t] = "idle"]
    /\ UNCHANGED <<init_mutex, c_calls, c_live, cRest>>

CNext ==
    \/ \E t \in Callers : c_init_call(t)
    \/ \E t \in Callers : c_init_lock(t)
    \/ \E t \in Callers : c_init_start(t)
    \/ \E t \in Callers : c_init_flag(t)
    \/ \E t \in Callers : c_destroy_call(t)
    \/ \E t \in Callers : c_destroy_lock(t)
    \/ \E t \in Callers : c_destroy_done(t)
    \/ \E t \in Callers : c_destroy_join(t)
    \/ \E t \in Callers : c_destroy_clean(t)

\* C36: init and destroy are single-entry: when a destroy overlaps another
\* destroy or an init, at most one call at a time performs start-up or
\* teardown of the library state, the other waits or returns without
\* touching that state, and an init that returns 0 leaves the library
\* started.
C36_SingleEntry ==
    /\ Cardinality({t \in Callers : c_pc[t] \in StartUp \cup TearDown}) <= 1
    /\ \A t \in Callers :
          (c_ret[t].call = "init" /\ c_ret[t].val = 0) =>
              c_ret[t].started = 1

(***************************************************************************)
(*                                                                         *)
(*  PART H  --  fistq: the list of shared queues, handles and ref counts   *)
(*                                                                         *)
(***************************************************************************)

\* ---- bounds of the handle model
MaxFq    == 3     \* fistq_t objects allocated in a run
MaxHInit == 2     \* calls of pd3_estimator_init that start the library

\* the handle of the aggregator thread and the handles of the application.
\* Every handle of the library is opened for the pair (FISTQ_SRC,
\* FISTQ_DST), so no two entries of the list differ in their names: a new
\* fistq_t is linked into an empty list, with next = NULL and prev = the
\* list head.
AggHandle  == "client2agg"
AppHandles == {"h1", "h2"}
FistqHandles    == AppHandles \cup {AggHandle}

\* a fistq_t: never allocated, allocated, or passed to fistq_free
Fq(state, ref_count) == [state |-> state, ref_count |-> ref_count]

\* fistq_find_unsafe(src, dst): the first entry of the list, the only pair
\* there is; 0 for NULL
fistq_find_unsafe == fistq_list_head

\* the process before any call
HInit ==
    /\ fistq_list_head = 0
    /\ h_fq = [q \in 1..MaxFq |-> Fq("unused", 0)]
    /\ h_handle = [h \in FistqHandles |-> 0]
    /\ h_started = FALSE
    /\ h_inits = 0

\* a started library whose aggregator holds the only handle
HIdle ==
    /\ fistq_list_head = 1
    /\ h_fq = [q \in 1..MaxFq |-> IF q = 1 THEN Fq("live", 1)
                                   ELSE Fq("unused", 0)]
    /\ h_handle = [h \in FistqHandles |-> IF h = AggHandle THEN 1 ELSE 0]
    /\ h_started = TRUE
    /\ h_inits = 1

\* fistq_getHandle(FISTQ_SRC, FISTQ_DST, ...) for handle h: the queue found
\* in the list gets one more reference, otherwise fistq_create_unsafe links
\* a new fistq_t with ref_count 1 at the head of the list
fistq_getHandle(h) ==
    /\ h_handle[h] = 0
    /\ IF fistq_find_unsafe # 0
       THEN /\ h_fq' = [h_fq EXCEPT ![fistq_find_unsafe].ref_count = @ + 1]
            /\ h_handle' = [h_handle EXCEPT ![h] = fistq_find_unsafe]
            /\ UNCHANGED fistq_list_head
       ELSE \E q \in 1..MaxFq :
            /\ h_fq[q].state = "unused"
            /\ \A o \in 1..(q - 1) : h_fq[o].state # "unused"
            /\ h_fq' = [h_fq EXCEPT ![q] = Fq("live", 1)]
            /\ h_handle' = [h_handle EXCEPT ![h] = q]
            /\ fistq_list_head' = q

\* fistq_destroyHandle(fh) for handle h: one reference less; at 0 the queue
\* is unlinked with fq->prev->next = fq->next, which writes NULL into the
\* list head, and fistq_free is called
fistq_destroyHandle(h) ==
    /\ h_handle[h] # 0
    /\ LET q == h_handle[h] IN
       IF h_fq[q].ref_count - 1 = 0
       THEN /\ h_fq' = [h_fq EXCEPT ![q] = Fq("freed", 0)]
            /\ fistq_list_head' = 0
       ELSE /\ h_fq' = [h_fq EXCEPT ![q].ref_count = @ - 1]
            /\ UNCHANGED fistq_list_head
    /\ h_handle' = [h_handle EXCEPT ![h] = 0]

\* pd3_estimator_init on a library that is not started: fistq_init clears
\* the list head
h_init ==
    /\ ~h_started
    /\ h_inits < MaxHInit
    /\ fistq_list_head' = 0
    /\ h_started' = TRUE
    /\ h_inits' = h_inits + 1
    /\ UNCHANGED <<h_fq, h_handle, notH>>

\* aggregator_thread, before its loop: the handle client2agg is opened
h_aggregator_open ==
    /\ h_started
    /\ fistq_getHandle(AggHandle)
    /\ UNCHANGED <<h_started, h_inits, notH>>

\* pd3_estimator_destroy on a started library: the aggregator leaves its
\* loop and closes client2agg before it is joined
h_destroy ==
    /\ h_started
    /\ fistq_destroyHandle(AggHandle)
    /\ h_started' = FALSE
    /\ UNCHANGED <<h_inits, notH>>

\* pd3_estimator_create_handle
pd3_estimator_create_handle(h) ==
    /\ fistq_getHandle(h)
    /\ UNCHANGED <<h_started, h_inits, notH>>

\* pd3_estimator_destroy_handle
pd3_estimator_destroy_handle(h) ==
    /\ fistq_destroyHandle(h)
    /\ UNCHANGED <<h_started, h_inits, notH>>

HNext ==
    \/ h_init
    \/ h_aggregator_open
    \/ h_destroy
    \/ \E h \in AppHandles : pd3_estimator_create_handle(h)
    \/ \E h \in AppHandles : pd3_estimator_destroy_handle(h)

\* the open handles
OpenHandles == {h \in FistqHandles : h_handle[h] # 0}

\* C22: at every moment, over any sequence of library init, handle open,
\* handle close and library destroy, all open handles reference the same
\* shared queue, its ref_count equals the number of open handles, and a
\* shared queue exists exactly as long as an open handle references it.
C22_OneSharedQueue ==
    /\ \A g, h \in OpenHandles : h_handle[g] = h_handle[h]
    /\ \A h \in OpenHandles :
          h_fq[h_handle[h]].ref_count = Cardinality(OpenHandles)
    /\ \A q \in 1..MaxFq :
          h_fq[q].state = "live" <=> \E h \in OpenHandles : h_handle[h] = q

(***************************************************************************)
(* Specifications                                                          *)
(***************************************************************************)

\* the queue alone: the estimator's other state stays as initialised
InitQ ==
    /\ QInit
    /\ PIdle
    /\ LIdle
    /\ RIdle
    /\ TIdle
    /\ FIdle
    /\ DIdle
    /\ HIdle
    /\ AIdle
    /\ GIdle
    /\ UIdle
    /\ CIdle
SpecQ == InitQ /\ [][QNext]_vars
SpecQA == InitQ /\ [][QANext]_vars

\* the epoch hand-off alone
InitP ==
    /\ PInit
    /\ QInit
    /\ LIdle
    /\ RIdle
    /\ TIdle
    /\ FIdle
    /\ DIdle
    /\ HIdle
    /\ AIdle
    /\ GIdle
    /\ UIdle
    /\ CIdle
SpecP == InitP /\ [][PNext]_vars

\* the loss estimator of one stream alone
InitL ==
    /\ LInit
    /\ QInit
    /\ PIdle
    /\ RIdle
    /\ TIdle
    /\ FIdle
    /\ DIdle
    /\ HIdle
    /\ AIdle
    /\ GIdle
    /\ UIdle
    /\ CIdle
SpecL == InitL /\ [][LNext]_vars

InitR ==
    /\ RInit
    /\ QInit
    /\ PIdle
    /\ LIdle
    /\ TIdle
    /\ FIdle
    /\ DIdle
    /\ HIdle
    /\ AIdle
    /\ GIdle
    /\ UIdle
    /\ CIdle
SpecR == InitR /\ [][RNext]_vars

\* the run across the wrap point, with a reporter thread that keeps running
InitRW ==
    /\ RInitWrap
    /\ QInit
    /\ PIdle
    /\ LIdle
    /\ TIdle
    /\ FIdle
    /\ DIdle
    /\ HIdle
    /\ AIdle
    /\ GIdle
    /\ UIdle
    /\ CIdle
SpecRW == InitRW /\ [][RNext]_vars /\ WF_vars(RReporter)

\* the trackers and the report schedule alone
InitT ==
    /\ TInit
    /\ QInit
    /\ PIdle
    /\ LIdle
    /\ RIdle
    /\ FIdle
    /\ DIdle
    /\ HIdle
    /\ AIdle
    /\ GIdle
    /\ UIdle
    /\ CIdle
SpecT == InitT /\ [][TNext]_vars

\* the same with set_schedule called at different times
InitTC ==
    /\ TInitClock
    /\ QInit
    /\ PIdle
    /\ LIdle
    /\ RIdle
    /\ FIdle
    /\ DIdle
    /\ HIdle
    /\ AIdle
    /\ GIdle
    /\ UIdle
    /\ CIdle
SpecTC == InitTC /\ [][TCNext]_vars

InitFSeq ==
    /\ FInitSeq
    /\ QInit
    /\ PIdle
    /\ LIdle
    /\ RIdle
    /\ TIdle
    /\ DIdle
    /\ HIdle
    /\ AIdle
    /\ GIdle
    /\ UIdle
    /\ CIdle
SpecFSeq == InitFSeq /\ [][FSeqNext]_vars
InitFFlow ==
    /\ FInitFlow
    /\ QInit
    /\ PIdle
    /\ LIdle
    /\ RIdle
    /\ TIdle
    /\ DIdle
    /\ HIdle
    /\ AIdle
    /\ GIdle
    /\ UIdle
    /\ CIdle
SpecFFlow == InitFFlow /\ [][FFlowNext]_vars

\* the life cycle: a process that calls init and destroy
InitD ==
    /\ DInitProcess
    /\ QInit
    /\ LIdle
    /\ RIdle
    /\ TIdle
    /\ FIdle
    /\ HIdle
    /\ AIdle
    /\ GIdle
    /\ UIdle
    /\ CIdle
SpecD == InitD /\ [][DNext]_vars

\* a started library with the default switches and one stream that sends;
\* every thread is scheduled fairly
InitDF ==
    /\ DFInitWith(OptA)
    /\ QInit
    /\ LIdle
    /\ TIdle
    /\ FIdle
    /\ HIdle
    /\ AIdle
    /\ GIdle
    /\ UIdle
    /\ CIdle
SpecDF == InitDF /\ [][DFNext]_vars /\ DFFair

\* the handles of a process that starts and stops the library
InitH ==
    /\ HInit
    /\ QInit
    /\ PIdle
    /\ LIdle
    /\ RIdle
    /\ TIdle
    /\ FIdle
    /\ DIdle
    /\ AIdle
    /\ GIdle
    /\ UIdle
    /\ CIdle
SpecH == InitH /\ [][HNext]_vars

\* the aggregator loop and its clock, for every interval init accepts
InitA ==
    /\ AInit
    /\ QInit
    /\ PIdle
    /\ LIdle
    /\ RIdle
    /\ TIdle
    /\ FIdle
    /\ DIdle
    /\ HIdle
    /\ GIdle
    /\ UIdle
    /\ CIdle
SpecA == InitA /\ [][ANext]_vars /\ AFair

\* the seqnoRange objects between the aggregator and the reporter
InitG ==
    /\ GInit
    /\ QInit
    /\ PIdle
    /\ LIdle
    /\ RIdle
    /\ TIdle
    /\ FIdle
    /\ DIdle
    /\ HIdle
    /\ AIdle
    /\ UIdle
    /\ CIdle
SpecG == InitG /\ [][GNext]_vars

\* the roll-up of stream units into a flow
InitU ==
    /\ UInit
    /\ QInit
    /\ PIdle
    /\ LIdle
    /\ RIdle
    /\ TIdle
    /\ FIdle
    /\ DIdle
    /\ HIdle
    /\ AIdle
    /\ GIdle
    /\ CIdle
SpecU == InitU /\ [][UNext]_vars

\* a process whose threads call init and destroy at the same time
InitC ==
    /\ CInit
    /\ DInitProcess
    /\ QInit
    /\ LIdle
    /\ RIdle
    /\ TIdle
    /\ FIdle
    /\ HIdle
    /\ AIdle
    /\ GIdle
    /\ UIdle
SpecC == InitC /\ [][CNext]_vars

====
